---------------------------- MODULE Spec2Model ----------------------------
(***************************************************************************)
(* State-machine model of the sahibinden listing scraper.                  *)
(*                                                                         *)
(* Text is a sequence of characters; a character is a one-symbol string.   *)
(* Non-ASCII characters carry ASCII names:                                 *)
(*   "c_" "g_" "i_" "o_" "s_" "u_"  are  c-cedilla, g-breve, dotless i,    *)
(*   o-diaeresis, s-cedilla, u-diaeresis; "C_" "G_" "I_" "O_" "S_" "U_"    *)
(*   their capitals ("I_" is the dotted capital I); "dot" is the           *)
(*   combining dot above that str.lower() produces for "I_"; "d5" is a     *)
(*   non-ASCII decimal digit (Python's \d is Unicode-aware); "nbsp" is a   *)
(*   non-ASCII white-space character; "tl" is the lira sign.               *)
(***************************************************************************)
EXTENDS Integers, Sequences, FiniteSets, TLC

VARIABLES
    pc,        \* position of the running operation
    arg,       \* the input the operation was called with
    res,       \* what the operation returned
    aux,       \* a second input / second result, where an operation has one
    imgs,      \* the image loop: the list it iterates over
    pos,       \* the image loop: the position it is at (from 1)
    saved,     \* the image loop: the paths appended so far
    todo,      \* the documents (or requests) still to be processed after arg
    disk,      \* the files written so far: path -> content
    log        \* what the finished runs returned or reported, in order

vars == <<pc, arg, res, aux, imgs, pos, saved, todo, disk, log>>

\* the variables of the image loop and of the session around a run, which
\* the operations on one value leave alone
loopVars == <<imgs, pos, saved, todo, disk, log>>
NoFiles == [p \in {} |-> <<>>]
LoopIdle ==
    /\ imgs = <<>> /\ pos = 0 /\ saved = <<>>
    /\ todo = <<>> /\ disk = NoFiles /\ log = <<>>

---------------------------------------------------------------------------
(* Characters and character classes (Python 3 str patterns).               *)

AsciiDigits == {"0","1","2","3","4","5","6","7","8","9"}
DigitChars == AsciiDigits \cup {"d5"}
LowerAscii == {"a","b","c","d","e","f","g","h","i","j","k","l","m",
               "n","o","p","q","r","s","t","u","v","w","x","y","z"}
UpperAscii == {"A","B","C","D","E","F","G","H","I","J","K","L","M",
               "N","O","P","Q","R","S","T","U","V","W","X","Y","Z"}
LowerTr == {"c_","g_","i_","o_","s_","u_"}
UpperTr == {"C_","G_","I_","O_","S_","U_"}
SpaceChars == {" ", "\t", "\n", "nbsp"}
PunctChars == {".", ",", ":", ";", "!", "?", "(", ")", "/", "+", "-", "_", "tl", "dot"}
\* "sq" is the superscript two: a word character, not a decimal digit
WordChars == DigitChars \cup LowerAscii \cup UpperAscii \cup LowerTr \cup UpperTr \cup {"_", "sq"}
Chars == WordChars \cup SpaceChars \cup PunctChars
AsciiChars == AsciiDigits \cup LowerAscii \cup UpperAscii \cup
              {" ", "\t", "\n", ".", ",", ":", ";", "!", "?", "(", ")", "/", "+", "-", "_"}

\* "Belirtilmemis" with s-cedilla: the sentinel of every variant
SENTINEL == <<"B","e","l","i","r","t","i","l","m","e","m","i","s_">>

---------------------------------------------------------------------------
(* A backtracking matcher for the regular expressions the code uses.       *)
(* A pattern is a sequence of items [cls, q]: cls the set of characters    *)
(* the item accepts, q one of "one", "opt" (x?), "star" (x* ), "end" ($).  *)
(* Quantifiers are greedy and backtrack, as Python's re does.              *)

One(c) == [cls |-> c, q |-> "one"]
Opt(c) == [cls |-> c, q |-> "opt"]
Star(c) == [cls |-> c, q |-> "star"]
End == [cls |-> {}, q |-> "end"]

\* the index after the match of pat[k..] at position i of t, 0 when none
RECURSIVE MatchAt(_, _, _, _)
MatchAt(pat, t, i, k) ==
    IF k > Len(pat) THEN i
    ELSE LET it == pat[k]
             can == i <= Len(t) /\ t[i] \in it.cls
         IN  CASE it.q = "one" ->
                    IF can THEN MatchAt(pat, t, i + 1, k + 1) ELSE 0
               [] it.q = "opt" ->
                    IF can
                    THEN LET r == MatchAt(pat, t, i + 1, k + 1)
                         IN  IF r # 0 THEN r ELSE MatchAt(pat, t, i, k + 1)
                    ELSE MatchAt(pat, t, i, k + 1)
               [] it.q = "star" ->
                    IF can
                    THEN LET r == MatchAt(pat, t, i + 1, k)
                         IN  IF r # 0 THEN r ELSE MatchAt(pat, t, i, k + 1)
                    ELSE MatchAt(pat, t, i, k + 1)
               [] OTHER ->
                    \* $ : at the end, or before a newline that ends the text
                    IF i = Len(t) + 1 \/ (i = Len(t) /\ t[i] = "\n")
                    THEN MatchAt(pat, t, i, k + 1) ELSE 0

\* re.search: the leftmost match, as [from, to) ; from = 0 when there is none
RECURSIVE SearchFrom(_, _, _)
SearchFrom(pat, t, i) ==
    IF i > Len(t) + 1 THEN [from |-> 0, to |-> 0]
    ELSE LET e == MatchAt(pat, t, i, 1)
         IN  IF e # 0 THEN [from |-> i, to |-> e] ELSE SearchFrom(pat, t, i + 1)

Search(pat, t) == SearchFrom(pat, t, 1)
Found(m) == m.from # 0
Group0(t, m) == SubSeq(t, m.from, m.to - 1)

\* re.sub for a pattern that matches no empty string
RECURSIVE SubFrom(_, _, _, _)
SubFrom(pat, repl, t, i) ==
    IF i > Len(t) THEN <<>>
    ELSE LET e == MatchAt(pat, t, i, 1)
         IN  IF e > i THEN repl \o SubFrom(pat, repl, t, e)
             ELSE <<t[i]>> \o SubFrom(pat, repl, t, i + 1)

Sub(pat, repl, t) == SubFrom(pat, repl, t, 1)

\* str.strip(chars)
RECURSIVE LStrip(_, _)
LStrip(t, cs) == IF t # <<>> /\ Head(t) \in cs THEN LStrip(Tail(t), cs) ELSE t
RECURSIVE RStrip(_, _)
RStrip(t, cs) ==
    IF t # <<>> /\ t[Len(t)] \in cs THEN RStrip(SubSeq(t, 1, Len(t) - 1), cs) ELSE t
Strip(t, cs) == RStrip(LStrip(t, cs), cs)

\* str.startswith
StartsWith(t, p) == Len(t) >= Len(p) /\ SubSeq(t, 1, Len(p)) = p

\* Python slice t[a:b] with 0 <= a <= b (0-based, end exclusive, clipped)
Slice(t, a, b) ==
    IF a >= Len(t) THEN <<>>
    ELSE SubSeq(t, a + 1, IF b > Len(t) THEN Len(t) ELSE b)

---------------------------------------------------------------------------
(* clean_spaces                                                            *)

clean_spaces(s) ==
    IF s = <<>> THEN <<>>
    ELSE Sub(<<One(SpaceChars), Star(SpaceChars)>>, <<" ">>, Strip(s, SpaceChars))

---------------------------------------------------------------------------
(* format_phone_digits                                                     *)

NonDigit == Chars \ DigitChars

\* the f-string of the canonical form, groups cut by slices
PhoneGroups(d) ==
    Slice(d, 0, 1) \o <<" ", "(">> \o Slice(d, 1, 4) \o <<")", " ">> \o
    Slice(d, 4, 7) \o <<" ">> \o Slice(d, 7, 9) \o <<" ">> \o Slice(d, 9, 11)

\* mutant: the trunk digit is not prepended to a 10-digit mobile number
format_phone_digits_no_trunk(digits) ==
    IF digits = <<>> THEN SENTINEL
    ELSE LET d == Sub(<<One(NonDigit)>>, <<>>, digits)
         IN  IF Len(d) >= 11 /\ StartsWith(d, <<"0">>)
             THEN PhoneGroups(d)
             ELSE digits

\* mutant: the groups are cut from the raw input instead of its digits
format_phone_digits_raw_groups(digits) ==
    IF digits = <<>> THEN SENTINEL
    ELSE LET d0 == Sub(<<One(NonDigit)>>, <<>>, digits)
             d == IF Len(d0) = 10 /\ StartsWith(d0, <<"5">>) THEN <<"0">> \o d0 ELSE d0
         IN  IF Len(d) >= 11 /\ StartsWith(d, <<"0">>)
             THEN PhoneGroups(digits)
             ELSE digits

\* mutant: an input that cannot be formatted is returned without its
\* non-digits
format_phone_digits_stripped(digits) ==
    IF digits = <<>> THEN SENTINEL
    ELSE LET d0 == Sub(<<One(NonDigit)>>, <<>>, digits)
             d == IF Len(d0) = 10 /\ StartsWith(d0, <<"5">>) THEN <<"0">> \o d0 ELSE d0
         IN  IF Len(d) >= 11 /\ StartsWith(d, <<"0">>)
             THEN PhoneGroups(d)
             ELSE d0

format_phone_digits(digits) ==
    IF digits = <<>> THEN SENTINEL
    ELSE LET d0 == Sub(<<One(NonDigit)>>, <<>>, digits)
             d == IF Len(d0) = 10 /\ StartsWith(d0, <<"5">>) THEN <<"0">> \o d0 ELSE d0
         IN  IF Len(d) >= 11 /\ StartsWith(d, <<"0">>)
             THEN PhoneGroups(d)
             ELSE digits

---------------------------------------------------------------------------
(* The phone canonicalizer applied to bounded inputs, then to its own      *)
(* output, and to the trunk-prefixed form of a 10-digit mobile number.     *)

MaxDigits == 12

\* digit strings of every length up to MaxDigits, and the documented example
DigitStrings ==
    UNION {[1..n -> {"0", "5"}] : n \in 0..MaxDigits}
    \cup {<<"0","5","5","3","6","4","6","1","6","3","1">>,
          <<"5","5","3","6","4","6","1","6","3","1">>,
          <<"0","d5","5","3","6","4","6","1","6","3","1">>}

\* the ways a number is written in a page
Dress(style, d) ==
    CASE style = "plain" -> d
      [] style = "grouped" -> PhoneGroups(d)
      [] style = "dashed" -> Slice(d, 0, 4) \o <<"-">> \o Slice(d, 4, 7) \o <<"-">> \o Slice(d, 7, 20)
      [] OTHER -> <<"T", "e", "l", ":", " ", "+">> \o d

PhoneInputs ==
    {Dress(st, d) : st \in {"plain", "grouped", "dashed", "label"}, d \in DigitStrings}
    \cup {SENTINEL, <<>>}

InitPhone ==
    /\ pc = "start"
    /\ LoopIdle
    /\ arg \in PhoneInputs
    /\ res = <<>>
    /\ aux = <<>>

Format ==
    /\ UNCHANGED loopVars
    /\ pc = "start"
    /\ res' = format_phone_digits(arg)
    /\ pc' = "once"
    /\ UNCHANGED <<arg, aux>>

\* re-normalising the value just produced
Reformat ==
    /\ UNCHANGED loopVars
    /\ pc = "once"
    /\ aux' = format_phone_digits(res)
    /\ pc' = "twice"
    /\ UNCHANGED <<arg, res>>

IsMobile10(t) == Len(t) = 10 /\ t[1] = "5" /\ \A i \in 1..10 : t[i] \in AsciiDigits
IsTrunk11(t) == Len(t) = 11 /\ t[1] = "0" /\ \A i \in 1..11 : t[i] \in AsciiDigits

\* the same 10 digits, written with the trunk digit
FormatWithTrunk ==
    /\ UNCHANGED loopVars
    /\ pc = "once"
    /\ IsMobile10(arg)
    /\ aux' = format_phone_digits(<<"0">> \o arg)
    /\ pc' = "trunk"
    /\ UNCHANGED <<arg, res>>

NextPhone == Format \/ Reformat \/ FormatWithTrunk

SpecPhone == InitPhone /\ [][NextPhone]_vars

\* 'D (DDD) DDD DD DD' written out position by position
Canonical(d) ==
    <<d[1], " ", "(", d[2], d[3], d[4], ")", " ", d[5], d[6], d[7], " ",
      d[8], d[9], " ", d[10], d[11]>>

(* C4: an 11-digit string starting with 0 is written as                    *)
(* 'd0 (d1d2d3) d4d5d6 d7d8 d9d10' ('05536461631' gives                    *)
(* '0 (553) 646 16 31'), and a 10-digit string starting with 5 gives the   *)
(* same result as the same string with a 0 in front.                       *)
C4_PhoneFormat ==
    /\ (pc \in {"once", "twice"} /\ IsTrunk11(arg)) => res = Canonical(arg)
    /\ (pc \in {"once", "twice"} /\ arg = <<"0","5","5","3","6","4","6","1","6","3","1">>)
         => res = <<"0"," ","(","5","5","3",")"," ","6","4","6"," ","1","6"," ","3","1">>
    /\ pc = "trunk" => (aux = res /\ res = Canonical(<<"0">> \o arg))

C4_Witness ==
    /\ pc = "trunk"
    /\ arg = <<"5","5","3","6","4","6","1","6","3","1">>
    /\ aux = <<"0"," ","(","5","5","3",")"," ","6","4","6"," ","1","6"," ","3","1">>

(* C5: normalising an output of the canonicalizer again returns it         *)
(* unchanged; so a canonical string and the sentinel are fixed points.     *)
C5_PhoneIdempotent ==
    /\ pc = "twice" => aux = res
    /\ (pc = "once" /\ (arg = SENTINEL \/ (Len(arg) = 17 /\ \E d \in DigitStrings :
                            Len(d) = 11 /\ d[1] = "0" /\ arg = Canonical(d))))
         => res = arg

C5_Witness ==
    /\ pc = "twice"
    /\ arg # res
    /\ res = <<"0"," ","(","5","5","3",")"," ","6","4","6"," ","1","6"," ","3","1">>
    /\ aux = res

---------------------------------------------------------------------------
(* extract_phone.  Of a document it reads: the href of every anchor, in    *)
(* document order; the text of the parent of every text node that matches  *)
(* \b(Cep|Telefon)\b, in document order; and the text of the whole page.   *)

TelPat == <<One({"t"}), One({"e"}), One({"l"}), One({":"}), Opt({"+"}), One(DigitChars)>>

SepChars == SpaceChars \cup {"-"}

\* 0?\s*\(?5\d{2}\)?[\s\-]?\d{3}[\s\-]?\d{2}[\s\-]?\d{2}
MobilePat ==
    <<Opt({"0"}), Star(SpaceChars), Opt({"("}), One({"5"}), One(DigitChars), One(DigitChars),
      Opt({")"}), Opt(SepChars), One(DigitChars), One(DigitChars), One(DigitChars),
      Opt(SepChars), One(DigitChars), One(DigitChars),
      Opt(SepChars), One(DigitChars), One(DigitChars)>>

\* soup.find("a", href=...): the first anchor whose href the pattern is found in
RECURSIVE FindTelHref(_)
FindTelHref(hrefs) ==
    IF hrefs = <<>> THEN [found |-> FALSE, href |-> <<>>]
    ELSE IF Found(Search(TelPat, Head(hrefs)))
         THEN [found |-> TRUE, href |-> Head(hrefs)]
         ELSE FindTelHref(Tail(hrefs))

\* the loop over the labelled elements: the first parent text with a number
RECURSIVE FindLabelled(_)
FindLabelled(labels) ==
    IF labels = <<>> THEN [found |-> FALSE, raw |-> <<>>]
    ELSE LET parent_text == clean_spaces(Head(labels))
             m == Search(MobilePat, parent_text)
         IN  IF Found(m) THEN [found |-> TRUE, raw |-> Group0(parent_text, m)]
             ELSE FindLabelled(Tail(labels))

\* the strategy that supplies the candidate (0: none) and the candidate
PhoneCandidate(doc) ==
    LET a == FindTelHref(doc.hrefs)
        l == FindLabelled(doc.labels)
        m == Search(MobilePat, doc.text)
    IN  IF a.found THEN [tier |-> 1, raw |-> Sub(<<One(NonDigit)>>, <<>>, a.href)]
        ELSE IF l.found THEN [tier |-> 2, raw |-> l.raw]
        ELSE IF Found(m) THEN [tier |-> 3, raw |-> Group0(doc.text, m)]
        ELSE [tier |-> 0, raw |-> <<>>]

extract_phone(doc) ==
    LET c == PhoneCandidate(doc)
    IN  IF c.tier = 0 THEN SENTINEL ELSE format_phone_digits(c.raw)

MaxVar == 2

\* 10-digit mobile numbers
MobileBodies ==
    {<<"5">> \o x \o <<"6","4","6","1","6","3","1">> : x \in [1..MaxVar -> {"0", "3", "5"}]}

Written(style, b) ==
    CASE style = "plain" -> b
      [] style = "spaced" -> Slice(b, 0, 3) \o <<" ">> \o Slice(b, 3, 6) \o <<" ">> \o
                             Slice(b, 6, 8) \o <<" ">> \o Slice(b, 8, 30)
      [] style = "paren" -> <<"(">> \o Slice(b, 0, 3) \o <<")", " ">> \o Slice(b, 3, 6) \o
                            <<"-">> \o Slice(b, 6, 8) \o <<"-">> \o Slice(b, 8, 30)
      [] OTHER -> Slice(b, 0, 1) \o <<" ", " ">> \o Slice(b, 1, 30)

PageTexts ==
    {pre \o Written(st, b) \o suf :
        pre \in {<<>>, <<"0">>, <<"0", " ">>, <<"C","e","p",":","\n">>, <<"n","o"," ","9","0">>},
        st \in {"plain", "spaced", "paren", "broken"},
        b \in MobileBodies,
        suf \in {<<>>, <<"7">>}}
    \cup {<<>>, <<"i","l","a","n">>}

TelPrefix == <<"t","e","l",":">>
SampleMobile == <<"5","5","3","6","4","6","1","6","3","1">>

AnchorLists ==
    {<<>>,
     <<TelPrefix \o <<"0">> \o SampleMobile>>,
     <<TelPrefix \o SampleMobile>>,
     <<TelPrefix \o <<"+","9","0">> \o SampleMobile>>,
     <<TelPrefix \o <<"0"," ","5","5","3"," ","6","4","6"," ","1","6"," ","3","1">>>>,
     <<TelPrefix \o <<"4","4","4","0","4","4","4">>>>,
     <<TelPrefix \o <<"0","2","8","2","2","6","1","0","0","0","0">>>>,
     <<TelPrefix, TelPrefix \o <<"0">> \o SampleMobile>>,
     <<<<"h","t","t","p",":","/","/","x">>, TelPrefix \o <<"+">>>>}

LabelLists ==
    {<<>>,
     <<<<"C","e","p"," "," ","0"," ","(","5","3","3",")"," ","6","4","6"," ","1","6"," ","3","1">>>>,
     <<<<"T","e","l","e","f","o","n">>, <<"C","e","p","\n","5","3","3","-","6","4","6","1","6","3","1">>>>,
     <<<<"T","e","l","e","f","o","n"," ","0","2","8","2">>>>}

PhoneDocs == [hrefs : AnchorLists, labels : LabelLists, text : PageTexts]

InitExtractPhone ==
    /\ pc = "start"
    /\ LoopIdle
    /\ arg \in PhoneDocs
    /\ res = <<>>
    /\ aux = 0

\* phone = extract_phone(soup); aux keeps the strategy that supplied it
ExtractPhone ==
    /\ UNCHANGED loopVars
    /\ pc = "start"
    /\ res' = extract_phone(arg)
    /\ aux' = PhoneCandidate(arg).tier
    /\ pc' = "done"
    /\ UNCHANGED arg

NextExtractPhone == ExtractPhone

SpecExtractPhone == InitExtractPhone /\ [][NextExtractPhone]_vars

\* '0 (5XX) XXX XX XX'
IsCanonicalMobile(t) ==
    /\ Len(t) = 17
    /\ t[1] = "0" /\ t[2] = " " /\ t[3] = "(" /\ t[4] = "5" /\ t[7] = ")" /\ t[8] = " "
    /\ t[12] = " " /\ t[15] = " "
    /\ \A i \in {5, 6, 9, 10, 11, 13, 14, 16, 17} : t[i] \in DigitChars

(* C6: the phone of a record is the sentinel or a string of the form       *)
(* '0 (5XX) XXX XX XX', whichever strategy supplied it.                    *)
C6_PhoneCanonicalOrSentinel ==
    pc = "done" => (res = SENTINEL \/ IsCanonicalMobile(res))

\* the part of C6 that the code keeps: a number found in text is canonical
C6_TextMatchCanonical ==
    (pc = "done" /\ aux \in {2, 3}) => IsCanonicalMobile(res)

---------------------------------------------------------------------------
(* clean_price                                                             *)

\* Fiyat.*$ under re.I: i also matches the dotless i and both capital I's
FiyatPat ==
    <<One({"F", "f"}), One({"i", "I", "i_", "I_"}), One({"y", "Y"}), One({"a", "A"}),
      One({"t", "T"}), Star(Chars \ {"\n"}), End>>

NumChars == DigitChars \cup {".", ","}

\* group 1 of (\d[\d\.\,]*)\s*(TL|lira sign)? : what follows the group can
\* match the empty string, so the group is the greedy match of its own part
PriceGroup1Pat == <<One(DigitChars), Star(NumChars)>>

\* str.replace(",", ".")
CommaToDot(t) == [i \in 1..Len(t) |-> IF t[i] = "," THEN "." ELSE t[i]]

\* mutant: the decimal comma is kept
clean_price_keeps_comma(raw) ==
    IF raw = <<>> THEN SENTINEL
    ELSE LET r1 == clean_spaces(raw)
             r2 == Sub(FiyatPat, <<>>, r1)
             m == Search(PriceGroup1Pat, r2)
         IN  IF Found(m) THEN Group0(r2, m) \o <<" ", "T", "L">>
             ELSE SENTINEL

clean_price(raw) ==
    IF raw = <<>> THEN SENTINEL
    ELSE LET r1 == clean_spaces(raw)
             r2 == Sub(FiyatPat, <<>>, r1)
             m == Search(PriceGroup1Pat, r2)
         IN  IF Found(m) THEN CommaToDot(Group0(r2, m)) \o <<" ", "T", "L">>
             ELSE SENTINEL

MaxRun == 3

PriceNumbers ==
    {<<d>> \o x : d \in {"1", "0"}, x \in UNION {[1..n -> {"5", ".", ","}] : n \in 0..MaxRun}}
    \cup {<<"1",".","2","5","0",".","0","0","0">>}

HistoryText == <<" ","T","L"," ","F","i","y","a","t"," ","T","a","r","i","h","c_","e","s","i",":"," ",".",".",".">>

PriceInputs ==
    {pre \o n \o suf :
        pre \in {<<>>, <<"\n", " ">>, <<"x", " ">>, <<"F","i","y","a","t",":"," ">>,
                 <<"F","I_","Y","A","T"," ">>, <<"f","i">>},
        n \in PriceNumbers,
        suf \in {<<>>, <<" ", "T", "L">>, <<"tl">>, HistoryText,
                 <<" ", "T", "L", "\n", "F","i","y","a","t"," ","2">>,
                 <<" ", "\t", "T", "L", " ", "9", " ", "T", "L">>, <<"m", "2">>}}
    \cup {<<>>, <<" ", " ">>, <<"a", "b", "c">>, <<"T", "L">>, <<"F","i","y","a","t">>}

InitPrice ==
    /\ pc = "start"
    /\ LoopIdle
    /\ arg \in PriceInputs
    /\ res = <<>>
    /\ aux = <<>>

CleanPrice ==
    /\ UNCHANGED loopVars
    /\ pc = "start"
    /\ res' = clean_price(arg)
    /\ pc' = "done"
    /\ UNCHANGED <<arg, aux>>

HasDigit(t) == \E i \in 1..Len(t) : t[i] \in DigitChars
FirstDigit(t) == CHOOSE i \in 1..Len(t) : t[i] \in DigitChars /\ \A j \in 1..(i - 1) : t[j] \notin DigitChars
\* the last index of the block of digits, dots and commas that starts at i
RunEnd(t, i) == CHOOSE k \in i..Len(t) :
    /\ \A j \in i..k : t[j] \in NumChars
    /\ k = Len(t) \/ t[k + 1] \notin NumChars
FirstRun(t) == SubSeq(t, FirstDigit(t), RunEnd(t, FirstDigit(t)))

\* the same text with everything after its first numeric run cut off
CleanPriceOfCut ==
    /\ UNCHANGED loopVars
    /\ pc = "done"
    /\ HasDigit(arg)
    /\ aux' = clean_price(SubSeq(arg, 1, RunEnd(arg, FirstDigit(arg))))
    /\ pc' = "cut"
    /\ UNCHANGED <<arg, res>>

NextPrice == CleanPrice \/ CleanPriceOfCut

SpecPrice == InitPrice /\ [][NextPrice]_vars

\* "fiyat" in any letter case at position i
FiyatAt(t, i) ==
    /\ i + 4 <= Len(t)
    /\ t[i] \in {"F", "f"} /\ t[i + 1] \in {"i", "I", "i_", "I_"} /\ t[i + 2] \in {"y", "Y"}
    /\ t[i + 3] \in {"a", "A"} /\ t[i + 4] \in {"t", "T"}
\* the text before the first "fiyat"
BeforeFiyat(t) ==
    IF \E i \in 1..Len(t) : FiyatAt(t, i)
    THEN SubSeq(t, 1, (CHOOSE i \in 1..Len(t) : FiyatAt(t, i) /\ \A j \in 1..(i - 1) : ~FiyatAt(t, j)) - 1)
    ELSE t
Dotted(t) == [i \in 1..Len(t) |-> IF t[i] = "," THEN "." ELSE t[i]]
TLSuffix == <<" ", "T", "L">>

(* C7 as stated: the sentinel when the input is empty or holds no digit,   *)
(* otherwise '<number> TL' for the leading numeric run of the collapsed    *)
(* text with the 'Fiyat...' text discarded.                                *)
C7_PriceAsStated ==
    pc = "done" =>
        IF ~HasDigit(arg) THEN res = SENTINEL
        ELSE /\ HasDigit(BeforeFiyat(clean_spaces(arg)))
             /\ res = Dotted(FirstRun(BeforeFiyat(clean_spaces(arg)))) \o TLSuffix

(* C7 amended: the sentinel when the collapsed text holds no digit before  *)
(* its first 'Fiyat' (any letter case; so also for an empty input),        *)
(* otherwise '<number> TL' for the first numeric run of that text with     *)
(* commas written as dots; '1.250.000 TL Fiyat Tarihcesi: ...' gives       *)
(* '1.250.000 TL'; cutting the text after the numeric run changes nothing. *)
C7_PriceAmended ==
    /\ pc \in {"done", "cut"} =>
        LET kept == BeforeFiyat(clean_spaces(arg))
        IN  IF ~HasDigit(kept) THEN res = SENTINEL
            ELSE res = Dotted(FirstRun(kept)) \o TLSuffix
    /\ (pc \in {"done", "cut"} /\ arg = <<"1",".","2","5","0",".","0","0","0">> \o HistoryText)
         => res = <<"1",".","2","5","0",".","0","0","0"," ","T","L">>
    /\ pc = "cut" => aux = res

C7_Witness ==
    /\ pc = "cut"
    /\ arg = <<"1",".","2","5","0",".","0","0","0">> \o HistoryText
    /\ res = <<"1",".","2","5","0",".","0","0","0"," ","T","L">>

\* a price behind a 'Fiyat' label: a digit in the input, the sentinel out
C7_WitnessLabel ==
    /\ pc = "done"
    /\ HasDigit(arg)
    /\ res = SENTINEL

---------------------------------------------------------------------------
(* extract_location.  Of a document it reads the attribute table (a        *)
(* mapping from the labels that have a row to their values) and the texts  *)
(* of the breadcrumb links, in document order.                             *)

UpperSeq == <<"A","B","C","D","E","F","G","H","I","J","K","L","M",
              "N","O","P","Q","R","S","T","U","V","W","X","Y","Z",
              "C_","G_","O_","S_","U_">>
LowerSeq == <<"a","b","c","d","e","f","g","h","i","j","k","l","m",
              "n","o","p","q","r","s","t","u","v","w","x","y","z",
              "c_","g_","o_","s_","u_">>

\* the one-character lower case of a character
SimpleLower(c) ==
    IF \E i \in 1..Len(UpperSeq) : UpperSeq[i] = c
    THEN LowerSeq[CHOOSE i \in 1..Len(UpperSeq) : UpperSeq[i] = c]
    ELSE IF c = "I_" THEN "i" ELSE c

\* re.I: characters with the same lower case match, and i matches dotless i
Fold(c) == IF c \in {"i", "I", "i_", "I_"} THEN "i" ELSE SimpleLower(c)
CI(c) == {x \in Chars : Fold(x) = Fold(c)}
Lit(w) == [k \in 1..Len(w) |-> One(CI(w[k]))]

\* (Emlak|Satilik|Turkiye|Ana Sayfa|Tum Ilanlar), with the Turkish letters
NavWords ==
    {<<"E","m","l","a","k">>,
     <<"S","a","t","i_","l","i_","k">>,
     <<"T","u_","r","k","i","y","e">>,
     <<"A","n","a"," ","S","a","y","f","a">>,
     <<"T","u_","m"," ","I_","l","a","n","l","a","r">>}

NavPats == {Lit(w) : w \in NavWords}

\* re.search(pattern, a.get_text(), re.I)
IsNavText(t) == \E p \in NavPats : Found(Search(p, t))

AttrGet(attrs, k, default) == IF k \in DOMAIN attrs THEN attrs[k] ELSE default

DEFAULT_CITY == <<"T","e","k","i","r","d","a","g_">>
DEFAULT_DISTRICT == <<"S","u_","l","e","y","m","a","n","p","a","s_","a">>
DEFAULT_NEIGHBORHOOD == <<"1","0","0","."," ","Y","i_","l"," ","M","a","h",".">>

RECURSIVE FilterCrumbs(_)
FilterCrumbs(bc) ==
    IF bc = <<>> THEN <<>>
    ELSE IF IsNavText(Head(bc)) THEN FilterCrumbs(Tail(bc))
         ELSE <<clean_spaces(Head(bc))>> \o FilterCrumbs(Tail(bc))

\* mutant: the first three remaining tokens are taken, not the last three
LocationBeforeDefaults_first_three(doc) ==
    LET city == AttrGet(doc.attrs, "Il", <<>>)
        district == AttrGet(doc.attrs, "Ilce", <<>>)
        neighborhood == AttrGet(doc.attrs, "Mahalle", <<>>)
        filt == FilterCrumbs(doc.crumbs)
    IN  IF (city = <<>> \/ district = <<>>) /\ Len(filt) >= 3
        THEN <<filt[1], filt[2], filt[3]>>
        ELSE <<city, district, neighborhood>>

\* city, district, neighborhood before the closing "or <default>"
LocationBeforeDefaults(doc) ==
    LET city == AttrGet(doc.attrs, "Il", <<>>)
        district == AttrGet(doc.attrs, "Ilce", <<>>)
        neighborhood == AttrGet(doc.attrs, "Mahalle", <<>>)
        filt == FilterCrumbs(doc.crumbs)
    IN  IF (city = <<>> \/ district = <<>>) /\ Len(filt) >= 3
        THEN <<filt[Len(filt) - 2], filt[Len(filt) - 1], filt[Len(filt)]>>
        ELSE <<city, district, neighborhood>>

OrDefault(v, default) == IF v = <<>> THEN default ELSE v

extract_location(doc) ==
    LET l == LocationBeforeDefaults(doc)
    IN  <<OrDefault(l[1], DEFAULT_CITY), OrDefault(l[2], DEFAULT_DISTRICT),
          OrDefault(l[3], DEFAULT_NEIGHBORHOOD)>>

MaxNav == 2
\* the number of tokens the code takes from the breadcrumb
LocParts == 3

\* link texts that lead a breadcrumb ("Konut" and "Anasayfa" pass the filter;
\* the empty text is a link that holds only an icon)
NavTokens ==
    {<<"A","n","a"," ","S","a","y","f","a">>, <<"K","o","n","u","t">>,
     <<"S","A","T","I","L","I","K">>, <<>>}

\* names of places, none of which holds a word of the filter
PlaceNames ==
    {<<"V","a","n">>, <<"E","r","c","i","s_">>, <<"Y","e","n","i"," ","M","h",".">>}

TailTokens == PlaceNames \cup {<<"E","m","l","a","k"," ","K","o","n","u","t">>, <<>>}

LocationAttrs ==
    {<<>>,
     [x \in {"Il"} |-> <<"I","z","m","i","r">>],
     [x \in {"Il", "Ilce"} |-> IF x = "Il" THEN <<"I","z","m","i","r">> ELSE <<"B","o","r","n","o","v","a">>]}

LocationDocs ==
    {[attrs |-> a, crumbs |-> nav \o tail] :
        a \in LocationAttrs,
        nav \in UNION {[1..n -> NavTokens] : n \in 0..MaxNav},
        tail \in UNION {[1..n -> TailTokens] : n \in 0..LocParts}}

InitLocation ==
    /\ pc = "start"
    /\ LoopIdle
    /\ arg \in LocationDocs
    /\ res = <<>>
    /\ aux = <<>>

\* city, district, neighborhood = extract_location(soup, attrs)
ExtractLocation ==
    /\ UNCHANGED loopVars
    /\ pc = "start"
    /\ res' = extract_location(arg)
    /\ aux' = LocationBeforeDefaults(arg)
    /\ pc' = "done"
    /\ UNCHANGED arg

NextLocation == ExtractLocation

SpecLocation == InitLocation /\ [][NextLocation]_vars

NoLocationRows(doc) == DOMAIN doc.attrs \cap {"Il", "Ilce", "Mahalle"} = {}

\* the texts that survive the filter, read off the links one by one
Remaining(crumbs) ==
    LET keep == {i \in 1..Len(crumbs) : ~IsNavText(crumbs[i])}
    IN  Cardinality(keep)

\* a run of leading links followed by three names drawn from `names`
NavThenPlace(crumbs, names) ==
    /\ Len(crumbs) >= 3
    /\ \A i \in 1..Len(crumbs) :
         IF i > Len(crumbs) - 3 THEN crumbs[i] \in names ELSE crumbs[i] \in NavTokens

LastThree(crumbs) ==
    <<crumbs[Len(crumbs) - 2], crumbs[Len(crumbs) - 1], crumbs[Len(crumbs)]>>

\* the component came from the closing "or <default>"
DefaultUsed(i) == aux[i] = <<>>

(* C8 as stated: without location rows, a breadcrumb of navigational       *)
(* tokens followed by city, district, neighborhood gives exactly these     *)
(* three; a default is used for a component only when fewer than 3 tokens  *)
(* remain after filtering.                                                 *)
C8_LocationAsStated ==
    (pc = "done" /\ NoLocationRows(arg)) =>
        /\ NavThenPlace(arg.crumbs, TailTokens \ {<<>>}) => res = LastThree(arg.crumbs)
        /\ \A i \in 1..3 : DefaultUsed(i) => Remaining(arg.crumbs) < 3

(* C8 amended: the three names are returned when none of them holds a word *)
(* of the filter; a default is used for a component only when fewer than 3 *)
(* tokens remain after filtering or the token taken for it is empty.       *)
C8_LocationAmended ==
    (pc = "done" /\ NoLocationRows(arg)) =>
        /\ NavThenPlace(arg.crumbs, PlaceNames) => res = LastThree(arg.crumbs)
        /\ \A i \in 1..3 : DefaultUsed(i) =>
             \/ Remaining(arg.crumbs) < 3
             \/ \E j \in 1..Len(arg.crumbs) :
                  /\ ~IsNavText(arg.crumbs[j])
                  /\ clean_spaces(arg.crumbs[j]) = <<>>
                  /\ Cardinality({k \in (j + 1)..Len(arg.crumbs) : ~IsNavText(arg.crumbs[k])}) = 3 - i

C8_Witness ==
    /\ pc = "done"
    /\ NoLocationRows(arg)
    /\ Len(arg.crumbs) = 5
    /\ arg.crumbs[1] = <<"A","n","a"," ","S","a","y","f","a">>
    /\ arg.crumbs[2] = <<"K","o","n","u","t">>
    /\ res = <<<<"V","a","n">>, <<"E","r","c","i","s_">>, <<"Y","e","n","i"," ","M","h",".">>>>

\* three tokens remain and a default is used all the same
C8_WitnessEmptyToken ==
    /\ pc = "done"
    /\ NoLocationRows(arg)
    /\ Remaining(arg.crumbs) >= 3
    /\ DefaultUsed(1)

---------------------------------------------------------------------------
(* slugify (the function of parser.py, app.py and the final variant)       *)

\* str.lower() of one character; the dotted capital I gives two characters
LowerChar(c) == IF c = "I_" THEN <<"i", "dot">> ELSE <<SimpleLower(c)>>

RECURSIVE Lower(_)
Lower(t) == IF t = <<>> THEN <<>> ELSE LowerChar(Head(t)) \o Lower(Tail(t))

\* tr_map
TrMap(c) ==
    CASE c \in {"c_", "C_"} -> <<"c">>
      [] c \in {"g_", "G_"} -> <<"g">>
      [] c \in {"i_", "I_"} -> <<"i">>
      [] c \in {"o_", "O_"} -> <<"o">>
      [] c \in {"s_", "S_"} -> <<"s">>
      [] c \in {"u_", "U_"} -> <<"u">>
      [] c = "+" -> <<"-", "p", "l", "u", "s", "-">>
      [] OTHER -> <<c>>

\* mutant: the table has no entry for "+"
TrMapNoPlus(c) == IF c = "+" THEN <<c>> ELSE TrMap(c)

RECURSIVE Translate(_)
Translate(t) == IF t = <<>> THEN <<>> ELSE TrMap(Head(t)) \o Translate(Tail(t))

RECURSIVE TranslateNoPlus(_)
TranslateNoPlus(t) ==
    IF t = <<>> THEN <<>> ELSE TrMapNoPlus(Head(t)) \o TranslateNoPlus(Tail(t))

ILAN == <<"i", "l", "a", "n">>

\* [^\w\s-]
NotSlugChar == Chars \ (WordChars \cup SpaceChars \cup {"-"})

\* mutant: "+" is not translated
slugify_no_plus(name) ==
    LET s0 == Lower(IF name = <<>> THEN ILAN ELSE name)
        s1 == TranslateNoPlus(s0)
        s2 == Sub(<<One(NotSlugChar)>>, <<>>, s1)
        s3 == Strip(Sub(<<One(SpaceChars), Star(SpaceChars)>>, <<"-">>, s2), {"-"})
    IN  IF s3 = <<>> THEN ILAN ELSE s3

slugify(name) ==
    LET s0 == Lower(IF name = <<>> THEN ILAN ELSE name)
        s1 == Translate(s0)
        s2 == Sub(<<One(NotSlugChar)>>, <<>>, s1)
        s3 == Strip(Sub(<<One(SpaceChars), Star(SpaceChars)>>, <<"-">>, s2), {"-"})
    IN  IF s3 = <<>> THEN ILAN ELSE s3

MaxTitle == 4

TitleAlphabet == {"a", "Z", "I_", "g_", " ", "+", "-", "!"}

\* "Istanbul Satilik Daire+" with its Turkish letters
SampleTitle ==
    <<"I_","s","t","a","n","b","u","l"," ","S","a","t","i_","l","i_","k"," ",
      "D","a","i","r","e","+">>

Titles ==
    UNION {[1..n -> TitleAlphabet] : n \in 0..MaxTitle}
    \cup {SampleTitle,
          <<"C_","G_","I","I_","O_","S_","U_"," ","\t","c_","g_","i_","o_","s_","u_">>,
          <<"3","+","1",","," ","a","_","b",";","(","x",")","?">>,
          <<"\n", "-", ".", " ">>}

InitSlug ==
    /\ pc = "start"
    /\ LoopIdle
    /\ arg \in Titles
    /\ res = <<>>
    /\ aux = <<>>

Slugify ==
    /\ UNCHANGED loopVars
    /\ pc = "start"
    /\ res' = slugify(arg)
    /\ pc' = "done"
    /\ UNCHANGED <<arg, aux>>

NextSlug == Slugify

SpecSlug == InitSlug /\ [][NextSlug]_vars

Count(t, cs) == Cardinality({i \in 1..Len(t) : t[i] \in cs})
\* the places where a white-space run starts
SpaceRuns(t) ==
    Cardinality({i \in 1..Len(t) : t[i] \in SpaceChars /\ (i = 1 \/ t[i - 1] \notin SpaceChars)})
Occurrences(t, w) ==
    Cardinality({i \in 1..(Len(t) - Len(w) + 1) : SubSeq(t, i, i + Len(w) - 1) = w})
OnlyLettersDigitsAndSeparators(t) ==
    \A i \in 1..Len(t) : t[i] \in WordChars \cup SpaceChars \cup {"+", "-"}

(* C10: for a title over ASCII letters, digits, white space, punctuation,  *)
(* "+" and the Turkish letters, the slug is non-empty, lower-case, ASCII,  *)
(* free of white space and of a leading or trailing hyphen; every "+" is   *)
(* written -plus- (the hyphens at the two ends of the slug being trimmed), *)
(* every white-space run is one hyphen, and the slug is "ilan" when the    *)
(* title is empty or nothing of it is kept.                                *)
C10_Slug ==
    pc = "done" =>
        /\ res # <<>>
        /\ \A i \in 1..Len(res) :
             res[i] \in AsciiChars /\ res[i] \notin UpperAscii /\ res[i] \notin SpaceChars
        /\ res[1] # "-" /\ res[Len(res)] # "-"
        /\ Occurrences(<<"-">> \o res \o <<"-">>, <<"-","p","l","u","s","-">>) >= Count(arg, {"+"})
        /\ Count(res, {"-"}) <= SpaceRuns(arg) + Count(arg, {"-"}) + 2 * Count(arg, {"+"})
        /\ (/\ arg # <<>>
            /\ OnlyLettersDigitsAndSeparators(arg)
            /\ arg[1] \in WordChars /\ arg[Len(arg)] \in WordChars)
             => Count(res, {"-"}) = SpaceRuns(arg) + Count(arg, {"-"}) + 2 * Count(arg, {"+"})
        /\ (\A i \in 1..Len(arg) : arg[i] \notin WordChars \cup {"+"}) => res = ILAN
        /\ arg = SampleTitle =>
             res = <<"i","s","t","a","n","b","u","l","-","s","a","t","i","l","i","k","-",
                     "d","a","i","r","e","-","p","l","u","s">>

C10_Witness ==
    /\ pc = "done"
    /\ arg = SampleTitle
    /\ res = <<"i","s","t","a","n","b","u","l","-","s","a","t","i","l","i","k","-",
               "d","a","i","r","e","-","p","l","u","s">>

---------------------------------------------------------------------------
(* The image reference resolver.                                           *)
(*                                                                         *)
(* variant   code                                                          *)
(* "parser"  parser.py: parse_listing, extract_images, download_images     *)
(*           (images fetched)                                              *)
(* "app"     app.py: parse_html_to_record, download_images_from_soup       *)
(*           (images fetched)                                              *)
(* "final"   offline_listing_parser_v12.py: parse_listing, extract_images  *)
(*           (paths only, nothing fetched)                                 *)
(* "expert"  offline_listing_parser_expert.py: parse_listing, copy_images  *)
(* "v12"     offline_listing_parser_final.py: parse_offline_listing,       *)
(*           copy_images                                                   *)
(* "v2"      offline_listing_parser_v2.py: parse_offline_listing,          *)
(*           copy_images                                                   *)
(* "v4"      offline_listing_parser_v4.py: parse_offline_listing,          *)
(*           copy_images                                                   *)
(* "base"    offline_listing_parser.py: parse_offline_listing,             *)
(*           copy_images_from_saved_folder                                 *)
(* "expert" to "base" read the embedded state and copy the images from the *)
(* <stem>_files directory of the saved page.                               *)
(*                                                                         *)
(* A live document is its img elements, each with a data-src and a src     *)
(* attribute (<<>>: the attribute is absent or empty).  A saved page is    *)
(* the entries of its <stem>_files directory in traversal order, each with *)
(* its suffix and whether it is a regular file, or no such directory.      *)

LiveVariants == {"parser", "app", "final"}
LocalVariants == {"expert", "v12", "v2", "v4", "base"}

IMG_CAP == 100

Exact(w) == [k \in 1..Len(w) |-> One({w[k]})]

\* \.(jpe?g|png|webp)(\?|$)
ImgExtPats ==
    {<<One({"."})>> \o Exact(e) \o <<tl>> :
        e \in {<<"j","p","g">>, <<"j","p","e","g">>, <<"p","n","g">>, <<"w","e","b","p">>},
        tl \in {One({"?"}), End}}

IsImageUrl(src) == \E p \in ImgExtPats : Found(Search(p, Lower(src)))

\* img.get("data-src") or img.get("src") or ""
TagSrc(tag) == IF tag.ds # <<>> THEN tag.ds ELSE tag.src

\* the loop over soup.select("img"): the accepted srcs, in document order
AcceptedSrcs(tags) ==
    SelectSeq([k \in 1..Len(tags) |-> TagSrc(tags[k])], IsImageUrl)

InSeq(x, t) == \E k \in 1..Len(t) : t[k] = x

\* list(dict.fromkeys(imgs)): the first occurrence of every entry, in order
Dedupe(t) ==
    LET marked == [k \in 1..Len(t) |->
                      [x |-> t[k], first |-> \A j \in 1..(k - 1) : t[j] # t[k]]]
        kept == SelectSeq(marked, LAMBDA e : e.first)
    IN  [k \in 1..Len(kept) |-> kept[k].x]

\* mutant: the list is not de-duplicated
CandidatesWithRepeats(tags) == AcceptedSrcs(tags)

\* imgs, as extract_images and download_images_from_soup build it
Candidates(tags) == Dedupe(AcceptedSrcs(tags))

DigitSeq == <<"0","1","2","3","4","5","6","7","8","9">>
RECURSIVE Dec(_)
Dec(n) == IF n < 10 THEN <<DigitSeq[n + 1]>> ELSE Dec(n \div 10) \o <<DigitSeq[(n % 10) + 1]>>
\* f"{n:02d}"
Pad2(n) == IF n < 10 THEN <<"0">> \o Dec(n) ELSE Dec(n)

Contains(t, w) == \E k \in 1..(Len(t) - Len(w) + 1) : SubSeq(t, k, k + Len(w) - 1) = w

\* slugify of the python-slugify package, which the offline variants import:
\* lower case, Turkish letters to ASCII, every run of other characters to
\* one hyphen, no hyphen at either end
LibAlnum == AsciiDigits \cup LowerAscii
LibAscii(c) ==
    CASE c \in {"c_"} -> <<"c">> [] c \in {"g_"} -> <<"g">> [] c \in {"i_"} -> <<"i">>
      [] c \in {"o_"} -> <<"o">> [] c \in {"s_"} -> <<"s">> [] c \in {"u_"} -> <<"u">>
      [] OTHER -> <<c>>
RECURSIVE LibTranslit(_)
LibTranslit(t) == IF t = <<>> THEN <<>> ELSE LibAscii(Head(t)) \o LibTranslit(Tail(t))
lib_slugify(text) ==
    Strip(Sub(<<One(Chars \ LibAlnum), Star(Chars \ LibAlnum)>>, <<"-">>,
              LibTranslit(Lower(text))), {"-"})

DATA == <<"d","a","t","a">>
IMAGES == <<"i","m","a","g","e","s">>
JPG == <<".","j","p","g">>
PNG == <<".","p","n","g">>

\* Path("data") / slugify(title) / "images"
LiveFolder(title) == DATA \o <<"/">> \o slugify(title) \o <<"/">> \o IMAGES

\* Path("data") / slugify(title)[:80] / "images"; an empty component adds
\* nothing to a path
ListingFolder(title) ==
    IF Slice(lib_slugify(title), 0, 80) = <<>>
    THEN DATA \o <<"/">> \o IMAGES
    ELSE DATA \o <<"/">> \o Slice(lib_slugify(title), 0, 80) \o <<"/">> \o IMAGES

\* the path a fetched image is written to (n: its number in the capped list)
LivePath(variant, title, n, src) ==
    LiveFolder(title) \o <<"/">> \o Pad2(n) \o
    (IF variant = "app"
     THEN (IF Contains(Lower(src), JPG) \/ Contains(Lower(src), <<".","j","p","e","g">>)
           THEN JPG ELSE PNG)
     ELSE JPG)

\* the path a saved file is copied to (n: the copy counter idx)
CopyPath(variant, title, n, suffix) ==
    CASE variant \in {"expert", "v12", "v2"} ->
            ListingFolder(title) \o <<"/">> \o Pad2(n) \o Lower(suffix)
      [] variant = "v4" ->
            DATA \o <<"/">> \o IMAGES \o <<"/">> \o Slice(lib_slugify(title), 0, 50) \o
            <<"_">> \o Pad2(n) \o Lower(suffix)
      [] OTHER ->
            DATA \o <<"/">> \o IMAGES \o <<"/">> \o Slice(lib_slugify(title), 0, 60) \o
            <<"_">> \o Pad2(n) \o Lower(suffix)

RASTER == {<<".","j","p","g">>, <<".","j","p","e","g">>, <<".","p","n","g">>, <<".","w","e","b","p">>}
GIF == <<".","g","i","f">>
\* exts / image_exts of the variant
Exts(variant) == IF variant \in {"expert", "v12"} THEN RASTER ELSE RASTER \cup {GIF}

\* the entry is one the loop copies
Wanted(variant, f) ==
    /\ Lower(f.suffix) \in Exts(variant)
    /\ variant = "base" => f.kind = "file"

\* mutant: the paths are written one after the other with nothing between
RECURSIVE JoinWithoutSeparator(_)
JoinWithoutSeparator(paths) ==
    IF paths = <<>> THEN <<>>
    ELSE IF Len(paths) = 1 THEN paths[1]
    ELSE JoinWithoutSeparator(SubSeq(paths, 1, Len(paths) \div 2)) \o
         JoinWithoutSeparator(SubSeq(paths, Len(paths) \div 2 + 1, Len(paths)))

\* ";".join(paths), computed half by half
RECURSIVE Join(_)
Join(paths) ==
    IF paths = <<>> THEN <<>>
    ELSE IF Len(paths) = 1 THEN paths[1]
    ELSE Join(SubSeq(paths, 1, Len(paths) \div 2)) \o <<";">> \o
         Join(SubSeq(paths, Len(paths) \div 2 + 1, Len(paths)))

\* "image_count": len(image_paths), "image_paths": ";".join(image_paths)
ImageFields(paths) ==
    [image_count |-> Len(paths), image_paths |-> Join(paths)]

Min(a, b) == IF a < b THEN a ELSE b

---------------------------------------------------------------------------
(* Reading the fields of a listing.                                        *)
(*                                                                         *)
(* A document is a record of what the selectors of the code see in it:     *)
(*   name          the file name (app: the URL) the listing came from      *)
(*   state         the classifiedDetail / classified object of the         *)
(*                 embedded state: title, description, city, town,         *)
(*                 quarter, user_name, user_phone (<<>>: absent or empty)  *)
(*                 and price, [kind, value]: kind "absent" (no price key), *)
(*                 "null" (price is null) or "object" (value: its          *)
(*                 valueFormatted, <<>> when it has none)                  *)
(*   h1c, h1       the text of h1.classifiedTitle and of the first h1      *)
(*   price_el      the text of the first .classifiedInfo h3 / .price       *)
(*   detail_price  the text of .classifiedDetailPrice                      *)
(*   h2            the text of .classifiedInfo h2                          *)
(*   crumbs        the texts of the breadcrumb links                       *)
(*   attrs         the rows of the attribute table, label to value         *)
(*   li            app: key word to the text of the first li holding it    *)
(*   desc_el, box_el   the text of #classifiedDescription, .uiBoxContainer *)
(*   owner_el, user_el the text of .username-info-area a, .userInfo        *)
(*                 .username                                               *)
(*   hrefs, labels, text   what extract_phone reads; text is the text of   *)
(*                 the whole page                                          *)
(*   items, dir    the img elements (live variants) or the entries of the  *)
(*                 <stem>_files directory and whether it exists            *)
(* The text of an element that is absent is <<>>, as txt and safe_text     *)
(* give it.                                                                *)

Fields ==
    {"url_offline", "listing_id", "title", "price", "city", "district", "neighborhood",
     "gross_m2", "net_m2", "room_count", "floor", "heating", "building_age", "furnished",
     "swap", "credit_eligible", "in_site", "owner_name", "phone", "description",
     "image_count", "image_paths", "is_real_estate"}

StringFields == Fields \ {"image_count", "is_real_estate"}

\* MatchAt that also gives the start of the group that opens at item mk and
\* closes at the end of the pattern: [to, g], to = 0 when there is no match
RECURSIVE MatchG(_, _, _, _, _, _)
MatchG(pat, t, i, k, mk, g) ==
    LET gs == IF k = mk /\ g = 0 THEN i ELSE g
        none == [to |-> 0, g |-> 0]
    IN  IF k > Len(pat) THEN [to |-> i, g |-> gs]
        ELSE LET it == pat[k]
                 can == i <= Len(t) /\ t[i] \in it.cls
             IN  CASE it.q = "one" ->
                        IF can THEN MatchG(pat, t, i + 1, k + 1, mk, gs) ELSE none
                   [] it.q = "opt" ->
                        IF can
                        THEN LET r == MatchG(pat, t, i + 1, k + 1, mk, gs)
                             IN  IF r.to # 0 THEN r ELSE MatchG(pat, t, i, k + 1, mk, gs)
                        ELSE MatchG(pat, t, i, k + 1, mk, gs)
                   [] it.q = "star" ->
                        IF can
                        THEN LET r == MatchG(pat, t, i + 1, k, mk, gs)
                             IN  IF r.to # 0 THEN r ELSE MatchG(pat, t, i, k + 1, mk, gs)
                        ELSE MatchG(pat, t, i, k + 1, mk, gs)
                   [] OTHER ->
                        IF i = Len(t) + 1 \/ (i = Len(t) /\ t[i] = "\n")
                        THEN MatchG(pat, t, i, k + 1, mk, gs) ELSE none

\* re.search(...) and m.group(1) for a pattern [pat, mk] whose group closes
\* the pattern: [found, group]
RECURSIVE SearchGroupFrom(_, _, _)
SearchGroupFrom(rx, t, i) ==
    IF i > Len(t) + 1 THEN [found |-> FALSE, group |-> <<>>]
    ELSE LET r == MatchG(rx.pat, t, i, 1, rx.mk, 0)
         IN  IF r.to # 0 THEN [found |-> TRUE, group |-> SubSeq(t, r.g, r.to - 1)]
             ELSE SearchGroupFrom(rx, t, i + 1)

SearchGroup(rx, t) == SearchGroupFrom(rx, t, 1)

Rx(pre, grp) == [pat |-> pre \o grp, mk |-> Len(pre) + 1]

AnyChar == Chars \ {"\n"}
Plus(c) == <<One(c), Star(c)>>

\* Brut\s*m.?(sq)?\s*[:\-]?\s*(\d+) and Net..., re.I (parser.py, app.py, final)
GrossRx ==
    Rx(Lit(<<"B","r","u_","t">>) \o <<Star(SpaceChars), One({"m", "M"}), Opt(AnyChar), Opt({"sq"}),
                          Star(SpaceChars), Opt({":", "-"}), Star(SpaceChars)>>,
       Plus(DigitChars))
NetRx ==
    Rx(Lit(<<"N","e","t">>) \o <<Star(SpaceChars), One({"m", "M"}), Opt(AnyChar), Opt({"sq"}),
                         Star(SpaceChars), Opt({":", "-"}), Star(SpaceChars)>>,
       Plus(DigitChars))

ColonOrSpace == SpaceChars \cup {":"}

\* the patterns of extract_attrs in the expert variant (re.I); a pattern with
\* an alternation is the set of its branches
ExpertRx ==
    [k \in {"Brut m2", "Net m2", "Oda Sayisi", "Bulundugu Kat", "Isitma", "Bina Yasi",
            "Esyali", "Takas", "Krediye Uygun", "Site Icerisinde"} |->
        CASE k = "Brut m2" ->
                {Rx(Lit(<<"B","r","u_","t">>) \o <<Star(SpaceChars)>> \o Lit(<<"m","sq">>) \o <<Star(ColonOrSpace)>>,
                    Plus(DigitChars \cup {"."}))}
          [] k = "Net m2" ->
                {Rx(Lit(<<"N","e","t">>) \o <<Star(SpaceChars)>> \o Lit(<<"m","sq">>) \o <<Star(ColonOrSpace)>>,
                    Plus(DigitChars \cup {"."}))}
          [] k = "Oda Sayisi" ->
                {Rx(<<>>, <<One(DigitChars), One({"+"}), One(DigitChars)>>)}
          [] k = "Bulundugu Kat" ->
                {Rx(Lit(<<"K","a","t">>) \o <<Star(ColonOrSpace)>>, Plus(WordChars \cup SpaceChars))}
          [] k = "Isitma" ->
                {Rx(Lit(<<"I","s","i_","t","m","a">>) \o <<Star(ColonOrSpace)>>, Plus(WordChars \cup SpaceChars))}
          [] k = "Bina Yasi" ->
                {Rx(Lit(<<"B","i","n","a">>) \o <<Star(SpaceChars)>> \o Lit(<<"Y","a","s_","i_">>) \o <<Star(ColonOrSpace)>>,
                    Plus(DigitChars))}
          [] k = "Esyali" ->
                {Rx(Lit(<<"E","s_","y","a","l","i_">>) \o <<Star(ColonOrSpace)>>, Lit(w)) : w \in {<<"E","v","e","t">>, <<"H","a","y","i_","r">>}}
          [] k = "Takas" ->
                {Rx(Lit(<<"T","a","k","a","s">>) \o <<Star(ColonOrSpace)>>, Lit(w)) : w \in {<<"E","v","e","t">>, <<"H","a","y","i_","r">>}}
          [] k = "Krediye Uygun" ->
                {Rx(Lit(<<"K","r","e","d","i","y","e">>) \o <<Star(SpaceChars)>> \o Lit(<<"U","y","g","u","n">>) \o <<Star(ColonOrSpace)>>,
                    Lit(w)) : w \in {<<"E","v","e","t">>, <<"H","a","y","i_","r">>}}
          [] OTHER ->
                {Rx(Lit(<<"S","i","t","e">>) \o <<Star(SpaceChars)>> \o Lit(<<"I_","c_","e","r","i","s","i","n","d","e">>) \o <<Star(ColonOrSpace)>>,
                    Lit(w)) : w \in {<<"E","v","e","t">>, <<"H","a","y","i_","r">>}}]

\* the patterns of extract_attrs in the v12 variant (no re.I)
V12Rx ==
    [k \in {"Brut m2", "Net m2", "Oda Sayisi", "Bulundugu Kat", "Isitma", "Bina Yasi"} |->
        CASE k = "Brut m2" ->
                {Rx(Exact(<<"B","r","u_","t">>) \o <<Star(SpaceChars)>> \o Exact(<<"m","sq">>) \o <<Star(ColonOrSpace)>>,
                    Plus(DigitChars \cup {"."}))}
          [] k = "Net m2" ->
                {Rx(Exact(<<"N","e","t">>) \o <<Star(SpaceChars)>> \o Exact(<<"m","sq">>) \o <<Star(ColonOrSpace)>>,
                    Plus(DigitChars \cup {"."}))}
          [] k = "Oda Sayisi" ->
                {Rx(Exact(<<"O","d","a">>) \o <<Star(SpaceChars)>> \o Exact(<<"S","a","y","i_","s","i_">>) \o <<Star(ColonOrSpace)>>,
                    Plus(DigitChars \cup {"+", "-"}))}
          [] k = "Bulundugu Kat" ->
                {Rx(Exact(<<"K","a","t">>) \o <<Star(ColonOrSpace)>>, Plus(WordChars))}
          [] k = "Isitma" ->
                {Rx(Exact(<<"I","s","i_","t","m","a">>) \o <<Star(ColonOrSpace)>>, Plus(WordChars \cup SpaceChars))}
          [] OTHER ->
                {Rx(Exact(<<"B","i","n","a">>) \o <<Star(SpaceChars)>> \o Exact(<<"Y","a","s_","i_">>) \o <<Star(ColonOrSpace)>>,
                    Plus(DigitChars))}]

\* re.search for a pattern given as the set of its branches: the leftmost
\* match (no two branches of these patterns match from the same place)
RECURSIVE SearchBranchesFrom(_, _, _)
SearchBranchesFrom(rxs, t, i) ==
    IF i > Len(t) + 1 THEN [found |-> FALSE, group |-> <<>>]
    ELSE LET hits == {rx \in rxs : MatchG(rx.pat, t, i, 1, rx.mk, 0).to # 0}
         IN  IF hits # {}
             THEN LET r == MatchG((CHOOSE rx \in hits : TRUE).pat, t, i, 1,
                                  (CHOOSE rx \in hits : TRUE).mk, 0)
                  IN  [found |-> TRUE, group |-> SubSeq(t, r.g, r.to - 1)]
             ELSE SearchBranchesFrom(rxs, t, i + 1)

SearchBranches(rxs, t) == SearchBranchesFrom(rxs, t, 1)

\* mutant: what a pattern finds replaces the row of the table
TextAttrsRegexFirst(rxs, doc) ==
    [k \in DOMAIN doc.attrs \cup {x \in DOMAIN rxs : SearchBranches(rxs[x], doc.text).found} |->
        IF k \in DOMAIN rxs /\ SearchBranches(rxs[k], doc.text).found
        THEN SearchBranches(rxs[k], doc.text).group
        ELSE doc.attrs[k]]

\* extract_attrs of the expert and v12 variants: the rows of the table, then
\* for every pattern whose label has no row, what the pattern finds in the
\* text of the page
TextAttrs(rxs, doc) ==
    [k \in DOMAIN doc.attrs \cup
           {x \in DOMAIN rxs : x \notin DOMAIN doc.attrs /\ SearchBranches(rxs[x], doc.text).found} |->
        IF k \in DOMAIN doc.attrs THEN doc.attrs[k] ELSE SearchBranches(rxs[k], doc.text).group]

\* pick(*keys, default=...) of the final variant
RECURSIVE pick(_, _, _)
pick(attrs, keys, default) ==
    IF keys = <<>> THEN default
    ELSE IF Head(keys) \in DOMAIN attrs /\ Strip(attrs[Head(keys)], SpaceChars) # <<>>
         THEN attrs[Head(keys)]
         ELSE pick(attrs, Tail(keys), default)

\* \s*-\s*Satilik.*$
TitleSuffixPat ==
    <<Star(SpaceChars), One({"-"}), Star(SpaceChars)>> \o Exact(<<"S","a","t","i_","l","i_","k">>) \o
    <<Star(AnyChar), End>>

\* txt(h1.classifiedTitle) or txt(h1) or the sentinel, spaces cleaned, the
\* suffix cut
LiveTitle(doc) ==
    Sub(TitleSuffixPat, <<>>,
        clean_spaces(IF doc.h1c # <<>> THEN doc.h1c
                     ELSE IF doc.h1 # <<>> THEN doc.h1 ELSE SENTINEL))

DEFAULT_OWNER == <<"E","L","I_","F"," ","D","E","M","I_","R","L","E","R"," ","G","A","Y","R","I_","M","E","N","K","U","L">>

\* the phone of parse_html_to_record: the tel: link, else the page text
app_phone(doc) ==
    LET a == FindTelHref(doc.hrefs)
        m == Search(MobilePat, doc.text)
    IN  IF a.found THEN format_phone_digits(Sub(<<One(NonDigit)>>, <<>>, a.href))
        ELSE IF Found(m) THEN format_phone_digits(Group0(doc.text, m))
        ELSE SENTINEL

OrElse(found, default) == IF found.found THEN found.group ELSE default

\* clean_price of the v2, v4 and base variants:
\* (\d[\d\.\s,]*\d)\s*TL under re.I; the group ends at the last digit
AmountTLPat ==
    <<One(DigitChars), Star(DigitChars \cup SpaceChars \cup {".", ","}), One(DigitChars),
      Star(SpaceChars), One({"t", "T"}), One({"l", "L"})>>

RemovePlainSpaces(t) == SelectSeq(t, LAMBDA c : c # " ")

clean_price_tl(t) ==
    IF t = <<>> THEN <<>>
    ELSE LET m == Search(AmountTLPat, t)
         IN  IF Found(m)
             THEN CommaToDot(RemovePlainSpaces(
                      RStrip(SubSeq(t, m.from, m.to - 3), SpaceChars))) \o <<" ","T","L">>
             ELSE Strip(t, SpaceChars)

\* str.split("/")
RECURSIVE SplitSlash(_, _)
SplitSlash(t, cur) ==
    IF t = <<>> THEN <<cur>>
    ELSE IF Head(t) = "/" THEN <<cur>> \o SplitSlash(Tail(t), <<>>)
         ELSE SplitSlash(Tail(t), Append(cur, Head(t)))

RECURSIVE StripAndDropEmpty(_)
StripAndDropEmpty(ps) ==
    IF ps = <<>> THEN <<>>
    ELSE IF Strip(Head(ps), SpaceChars) = <<>> THEN StripAndDropEmpty(Tail(ps))
         ELSE <<Strip(Head(ps), SpaceChars)>> \o StripAndDropEmpty(Tail(ps))

\* parts[n] if len(parts) > n else ""   (n counted from 0)
PartOr(parts, n) == IF Len(parts) > n THEN parts[n + 1] ELSE <<>>

parse_location_from_h2(h2_text) ==
    LET parts == StripAndDropEmpty(SplitSlash(h2_text, <<>>))
    IN  <<PartOr(parts, 0), PartOr(parts, 1), PartOr(parts, 2)>>

\* extract_breadcrumb of the expert variant: the non-empty link texts, of
\* which the fifth, sixth and seventh are the location
extract_breadcrumb(doc) ==
    LET parts == StripAndDropEmpty(doc.crumbs)
    IN  <<PartOr(parts, 4), PartOr(parts, 5), PartOr(parts, 6)>>

\* classified.get("price", {}).get("valueFormatted", ...) raises when the
\* state holds "price": null
PriceRaises(doc) == doc.state.price.kind = "null"
StatePrice(doc) == IF doc.state.price.kind = "object" THEN doc.state.price.value ELSE <<>>

\* city, district, neighborhood of the v2, v4 and base variants
StateOrH2Location(doc) ==
    LET s == doc.state
        h == parse_location_from_h2(doc.h2)
    IN  IF s.city = <<>>
        THEN <<h[1], OrDefault(s.town, h[2]), OrDefault(s.quarter, h[3])>>
        ELSE <<s.city, s.town, s.quarter>>

\* the attribute fields of a record, each attrs.get(label, default)
TableFields(attrs, d) ==
    [f \in {"gross_m2", "net_m2", "room_count", "floor", "heating", "building_age",
            "furnished", "swap", "credit_eligible", "in_site"} |->
        CASE f = "gross_m2" -> AttrGet(attrs, "Brut m2", d[f])
          [] f = "net_m2" -> AttrGet(attrs, "Net m2", d[f])
          [] f = "room_count" -> AttrGet(attrs, "Oda Sayisi", d[f])
          [] f = "floor" -> AttrGet(attrs, "Bulundugu Kat", d[f])
          [] f = "heating" -> AttrGet(attrs, "Isitma", d[f])
          [] f = "building_age" -> AttrGet(attrs, "Bina Yasi", d[f])
          [] f = "furnished" -> AttrGet(attrs, "Esyali", d[f])
          [] f = "swap" -> AttrGet(attrs, "Takas", d[f])
          [] f = "credit_eligible" -> AttrGet(attrs, "Krediye Uygun", d[f])
          [] OTHER -> AttrGet(attrs, "Site Icerisinde", d[f])]

TableLabels ==
    {"gross_m2", "net_m2", "room_count", "floor", "heating", "building_age",
     "furnished", "swap", "credit_eligible", "in_site"}

NoDefaults == [f \in TableLabels |-> <<>>]

ParserDefaults ==
    [f \in TableLabels |->
        CASE f = "room_count" -> <<"2","+","1">>
          [] f = "floor" -> <<"4">>
          [] f = "heating" -> <<"K","o","m","b","i"," ","(","D","o","g_","a","l","g","a","z",")">>
          [] f = "building_age" -> <<"0"," ","(","O","t","u","r","u","m","a"," ","H","a","z","i_","r",")">>
          [] f = "furnished" -> <<"H","a","y","i_","r">>
          [] f \in {"gross_m2", "net_m2"} -> <<>>
          [] OTHER -> <<"E","v","e","t">>]

ExpertDefaults ==
    [f \in TableLabels |->
        CASE f \in {"gross_m2", "net_m2"} -> SENTINEL
          [] f = "room_count" -> <<"2","+","1">>
          [] f = "floor" -> <<"4","."," ","K","a","t">>
          [] f = "heating" -> <<"K","o","m","b","i"," ","(","D","o","g_","a","l","g","a","z",")">>
          [] f = "building_age" -> <<"0"," ","(","Y","e","n","i",")">>
          [] f = "furnished" -> <<"H","a","y","i_","r">>
          [] OTHER -> <<"E","v","e","t">>]

\* r with the fields of s added (s wins)
Merge(r, s) ==
    [f \in DOMAIN r \cup DOMAIN s |-> IF f \in DOMAIN s THEN s[f] ELSE r[f]]

\* the record fields parse_listing of parser.py reads
ParserLocals(doc) ==
    LET loc == extract_location(doc)
    IN  Merge(TableFields(doc.attrs, ParserDefaults),
              [title |-> LiveTitle(doc),
               price |-> clean_price(doc.price_el),
               city |-> loc[1], district |-> loc[2], neighborhood |-> loc[3],
               gross_m2 |-> OrElse(SearchGroup(GrossRx, doc.text), <<"1","0","0">>),
               net_m2 |-> OrElse(SearchGroup(NetRx, doc.text), <<"9","0">>),
               owner_name |-> OrDefault(doc.owner_el, DEFAULT_OWNER),
               phone |-> extract_phone(doc),
               description |-> clean_spaces(OrDefault(doc.desc_el, doc.box_el))])

\* the record fields parse_listing of the final variant reads: as parser.py,
\* the table fields through pick
\* the free-form attribute fields as parse_listing of the final variant
\* calls pick: a second positional argument is a key, not the default
FinalPicks(attrs) ==
    [room_count |-> pick(attrs, <<"Oda Sayisi">>, <<"2","+","1">>),
     floor |-> pick(attrs, <<"Bulundugu Kat">>, <<"4">>),
     heating |-> pick(attrs, <<"Isitma", "Kombi (Dogalgaz)">>, SENTINEL),
     building_age |-> pick(attrs, <<"Bina Yasi", "0 (Oturuma Hazir)">>, SENTINEL),
     furnished |-> pick(attrs, <<"Esyali", "Hayir">>, SENTINEL),
     swap |-> pick(attrs, <<"Takas", "Evet">>, SENTINEL),
     credit_eligible |-> pick(attrs, <<"Krediye Uygun", "Evet">>, SENTINEL),
     in_site |-> pick(attrs, <<"Site Icerisinde", "Evet">>, SENTINEL)]

FinalLocals(doc) == Merge(ParserLocals(doc), FinalPicks(doc.attrs))

\* the record fields parse_html_to_record of app.py reads
AppLocals(doc) ==
    [title |-> LiveTitle(doc),
     price |-> clean_spaces(doc.price_el),
     city |-> SENTINEL, district |-> SENTINEL, neighborhood |-> SENTINEL,
     gross_m2 |-> OrElse(SearchGroup(GrossRx, doc.text), <<>>),
     net_m2 |-> OrElse(SearchGroup(NetRx, doc.text), <<>>),
     room_count |-> AttrGet(doc.li, "Oda", <<>>),
     floor |-> AttrGet(doc.li, "Bulundugu Kat", <<>>),
     heating |-> AttrGet(doc.li, "Isitma", <<>>),
     building_age |-> AttrGet(doc.li, "Bina Yasi", <<>>),
     furnished |-> AttrGet(doc.li, "Esyali", <<>>),
     swap |-> AttrGet(doc.li, "Takas", <<>>),
     credit_eligible |-> AttrGet(doc.li, "Kredi", <<>>),
     in_site |-> AttrGet(doc.li, "Site Icerisinde", <<>>),
     owner_name |-> OrDefault(doc.owner_el, SENTINEL),
     phone |-> app_phone(doc),
     description |-> clean_spaces(doc.desc_el)]

\* the record fields parse_listing of the expert variant reads
ExpertLocals(doc) ==
    LET s == doc.state
        loc == extract_breadcrumb(doc)
    IN  Merge(TableFields(TextAttrs(ExpertRx, doc), ExpertDefaults),
              [title |-> IF s.title # <<>> THEN s.title
                         ELSE IF doc.h1 # <<>> THEN doc.h1 ELSE <<"I_","l","a","n">>,
               price |-> OrDefault(StatePrice(doc), SENTINEL),
               city |-> OrDefault(loc[1], DEFAULT_CITY),
               district |-> OrDefault(loc[2], DEFAULT_DISTRICT),
               neighborhood |-> OrDefault(loc[3], DEFAULT_NEIGHBORHOOD),
               owner_name |-> OrDefault(s.user_name, DEFAULT_OWNER),
               phone |-> OrDefault(s.user_phone, SENTINEL),
               description |-> Strip(OrDefault(s.description, doc.desc_el), SpaceChars)])

\* the record fields parse_offline_listing of the v12 variant reads
V12Locals(doc) ==
    LET s == doc.state
    IN  Merge(TableFields(TextAttrs(V12Rx, doc), NoDefaults),
              [title |-> IF s.title # <<>> THEN s.title
                         ELSE IF doc.h1 # <<>> THEN doc.h1 ELSE ILAN,
               price |-> StatePrice(doc),
               city |-> s.city, district |-> s.town, neighborhood |-> s.quarter,
               owner_name |-> s.user_name,
               phone |-> s.user_phone,
               description |-> OrDefault(s.description, doc.desc_el)])

\* the record fields parse_offline_listing of the v2, v4 and base variants
\* reads; only v2 has a default title
OfflineLocals(doc) ==
    LET s == doc.state
        loc == StateOrH2Location(doc)
    IN  Merge(TableFields(doc.attrs, NoDefaults),
              [title |-> IF s.title # <<>> THEN s.title
                         ELSE IF doc.h1 # <<>> THEN doc.h1
                         ELSE IF doc.variant = "v2" THEN ILAN ELSE <<>>,
               price |-> OrDefault(StatePrice(doc), clean_price_tl(doc.detail_price)),
               city |-> loc[1], district |-> loc[2], neighborhood |-> loc[3],
               owner_name |-> OrDefault(s.user_name, doc.user_el),
               phone |-> s.user_phone,
               description |-> OrDefault(s.description, doc.desc_el)])

Locals(doc) ==
    CASE doc.variant = "parser" -> ParserLocals(doc)
      [] doc.variant = "final" -> FinalLocals(doc)
      [] doc.variant = "app" -> AppLocals(doc)
      [] doc.variant = "expert" -> ExpertLocals(doc)
      [] doc.variant = "v12" -> V12Locals(doc)
      [] OTHER -> OfflineLocals(doc)

\* re.search(r"(\d+)", name) ; v2, v4 and base: re.search(r"-(\d+)", name)
IdRx(doc) ==
    IF doc.variant \in {"v2", "v4", "base"}
    THEN Rx(<<One({"-"})>>, Plus(DigitChars))
    ELSE Rx(<<>>, Plus(DigitChars))

\* parser.py and the final variant call .group(1) on the result unchecked
IdRaises(doc) ==
    doc.variant \in {"parser", "final"} /\ ~SearchGroup(IdRx(doc), doc.name).found

listing_id(doc) == OrElse(SearchGroup(IdRx(doc), doc.name), <<>>)

\* the record literal
Record(doc, locals, paths) ==
    Merge(Merge(locals, ImageFields(paths)),
          [url_offline |-> doc.name,
           listing_id |-> listing_id(doc),
           is_real_estate |-> TRUE])

---------------------------------------------------------------------------
(* The documents the listing machine is run on.                            *)

MaxImgs == 3

U_JPG == <<"h","t","t","p",":","/","a",".","j","p","g">>
U_PNG_QUERY == <<"h","t","t","p",":","/","b",".","P","N","G","?","v">>
U_RELATIVE == <<"/","r",".","j","p","e","g">>
U_GIF == <<"h","t","t","p",":","/","c",".","g","i","f">>
U_WEBP == <<"h","t","t","p",":","/","d",".","w","e","b","p">>

ImgTags ==
    {[ds |-> <<>>, src |-> U_JPG],
     [ds |-> U_PNG_QUERY, src |-> U_JPG],
     [ds |-> <<>>, src |-> U_RELATIVE],
     [ds |-> <<>>, src |-> U_GIF],
     [ds |-> U_WEBP, src |-> <<>>]}

SavedEntries ==
    {[suffix |-> <<".","j","p","g">>, kind |-> "file"],
     [suffix |-> <<".","J","P","G">>, kind |-> "file"],
     [suffix |-> GIF, kind |-> "file"],
     [suffix |-> <<".","j","s">>, kind |-> "file"],
     [suffix |-> PNG, kind |-> "dir"]}

NoState ==
    [title |-> <<>>, description |-> <<>>, city |-> <<>>, town |-> <<>>, quarter |-> <<>>,
     user_name |-> <<>>, user_phone |-> <<>>, price |-> [kind |-> "absent", value |-> <<>>]]

FullState ==
    [title |-> <<"E","v">>, description |-> <<" ","i","y","i"," ","e","v"," ">>, city |-> <<"A","n","k","a","r","a">>, town |-> <<"M","a","m","a","k">>,
     quarter |-> <<"B","a","h","a","r">>, user_name |-> <<"A","l","i">>, user_phone |-> <<"0"," ","(","5","3","3",")"," ","6","4","6"," ","1","6"," ","3","1">>,
     price |-> [kind |-> "object", value |-> <<"5",".","0","0","0"," ","T","L">>]]

States ==
    {NoState,
     FullState,
     [FullState EXCEPT !.price = [kind |-> "null", value |-> <<>>]],
     [FullState EXCEPT !.price = [kind |-> "object", value |-> <<>>], !.description = <<"i","y","i">>],
     [NoState EXCEPT !.city = <<"A","n","k","a","r","a">>],
     [NoState EXCEPT !.town = <<"M","a","m","a","k">>, !.title = <<"E","v">>],
     [NoState EXCEPT !.price = [kind |-> "object", value |-> <<"5",".","0","0","0"," ","T","L">>],
                     !.user_name = <<"A","l","i">>]}

\* a page without any of the elements the code looks for
BlankDoc ==
    [variant |-> "parser", name |-> <<"i","l","a","n",".","h","t","m","l">>, state |-> NoState,
     h1c |-> <<>>, h1 |-> <<>>, price_el |-> <<>>, detail_price |-> <<>>, h2 |-> <<>>,
     crumbs |-> <<>>, attrs |-> <<>>, li |-> <<>>, desc_el |-> <<>>, box_el |-> <<>>,
     owner_el |-> <<>>, user_el |-> <<>>, hrefs |-> <<>>, labels |-> <<>>, text |-> <<>>,
     items |-> <<>>, dir |-> FALSE]

FileNames == {<<"i","l","a","n","-","1","2","7",".","h","t","m","l">>, <<"i","l","a","n",".","h","t","m","l">>, <<"i","l","a","n","_","1","2","7",".","h","t","m","l">>}

TitleMarkups ==
    {[h1c |-> <<>>, h1 |-> <<>>],
     [h1c |-> <<>>, h1 |-> <<"D","a","i","r","e">>],
     [h1c |-> <<"D","a","i","r","e"," "," ","-"," ","S","a","t","i_","l","i_","k"," ","E","v">>, h1 |-> <<"x">>],
     [h1c |-> <<"-"," ","S","a","t","i_","l","i_","k">>, h1 |-> <<>>]}

PriceMarkups ==
    {[price_el |-> <<>>, detail_price |-> <<>>],
     [price_el |-> <<"1",".","2","5","0",".","0","0","0"," ","T","L">>, detail_price |-> <<"1"," ","2","5","0",",","5"," ","t","l">>],
     [price_el |-> <<"F","i","y","a","t"," ","y","o","k">>, detail_price |-> <<" ","y","o","k"," ">>]}

FullCrumbs ==
    <<<<"A","n","a","s","a","y","f","a">>, <<"E","m","l","a","k">>, <<"K","o","n","u","t">>, <<"S","a","t","i_","l","i_","k">>, <<"I_","z","m","i","r">>, <<" ","B","o","r","n","o","v","a"," ">>, <<"Y","e","n","i"," ","M","h",".">>>>

LocationMarkups ==
    {[h2 |-> <<>>, crumbs |-> <<>>],
     [h2 |-> <<"I_","z","m","i","r"," ","/"," ","B","o","r","n","o","v","a"," ","/"," ","Y","e","n","i"," ","M","h",".">>, crumbs |-> FullCrumbs],
     [h2 |-> <<"I_","z","m","i","r"," ","/">>, crumbs |-> SubSeq(FullCrumbs, 1, 5)]}

DescriptionMarkups ==
    {[desc_el |-> <<>>, box_el |-> <<>>],
     [desc_el |-> <<"G","e","n","i","s"," "," ","d","a","i","r","e">>, box_el |-> <<>>],
     [desc_el |-> <<>>, box_el |-> <<"k","u","t","u">>]}

FullTable ==
    [k \in {"Il", "Ilce", "Brut m2", "Oda Sayisi", "Isitma", "Takas"} |->
        CASE k = "Il" -> <<"B","u","r","s","a">>
          [] k = "Ilce" -> <<"N","i","l","u","f","e","r">>
          [] k = "Brut m2" -> <<"1","1","0">>
          [] k = "Oda Sayisi" -> <<"3","+","1">>
          [] k = "Isitma" -> <<>>
          [] OTHER -> <<" ">>]

FullLi ==
    [k \in {"Oda", "Kredi"} |-> IF k = "Oda" THEN <<"O","d","a"," ","S","a","y","i_","s","i_","3","+","1">> ELSE <<"K","r","e","d","i","y","e"," ","U","y","g","u","n","E","v","e","t">>]

PageText == <<"B","r","u_","t"," ","m","sq"," ","1","2","0"," ","N","e","t"," ","m","sq",":"," ","9","5"," ","K","a","t",":"," ","3"," ","I","s","i_","t","m","a",":"," ","K","o","m","b","i"," ","B","i","n","a"," ","Y","a","s_","i_",":"," ","5"," ","E","s_","y","a","l","i_",":"," ","H","a","y","i_","r"," ","2","+","1"," ","0","5","3","3"," ","6","4","6"," ","1","6"," ","3","1">>

TableMarkups ==
    {[attrs |-> <<>>, li |-> <<>>, text |-> <<>>],
     [attrs |-> FullTable, li |-> FullLi, text |-> PageText],
     [attrs |-> <<>>, li |-> <<>>, text |-> PageText]}

ContactMarkups ==
    {[owner_el |-> <<>>, user_el |-> <<>>, hrefs |-> <<>>, labels |-> <<>>],
     [owner_el |-> <<"V","e","l","i">>, user_el |-> <<"V","e","l","i"," ","B","e","y">>,
      hrefs |-> <<TelPrefix \o <<"+","9","0">> \o SampleMobile>>,
      labels |-> <<<<"C","e","p"," ","0"," ","(","5","3","3",")"," ","6","4","6"," ","1","6"," ","3","1">>>>]}

\* documents rich in fields, with one image
LiveFieldDocs ==
    {Merge(BlankDoc,
           Merge(Merge(Merge(t, p), Merge(l, d)), Merge(Merge(a, c),
                 [variant |-> v, name |-> n, items |-> <<[ds |-> <<>>, src |-> U_JPG]>>]))) :
        v \in LiveVariants, n \in {<<"i","l","a","n","-","1","2","7",".","h","t","m","l">>, <<"i","l","a","n",".","h","t","m","l">>},
        t \in TitleMarkups, p \in PriceMarkups,
        l \in LocationMarkups, d \in DescriptionMarkups, a \in TableMarkups,
        c \in ContactMarkups}

\* every state under one name, every name with no state
NamedStates == {ns \in FileNames \X States : ns[1] = <<"i","l","a","n","-","1","2","7",".","h","t","m","l">> \/ ns[2] = NoState}

StateFieldDocs ==
    {Merge(BlankDoc,
           Merge(Merge(Merge(t, p), Merge(l, d)), Merge(Merge(a, c),
                 [variant |-> v, name |-> ns[1], state |-> ns[2], dir |-> TRUE,
                  items |-> <<[suffix |-> <<".","j","p","g">>, kind |-> "file"]>>]))) :
        v \in LocalVariants, ns \in NamedStates,
        t \in {x \in TitleMarkups : x.h1c = <<>>}, p \in PriceMarkups,
        l \in LocationMarkups,
        d \in {x \in DescriptionMarkups : x.box_el = <<>>},
        a \in {x \in TableMarkups : x.text # <<>>},
        c \in ContactMarkups}

ImageTitles == {<<"A",";"," ","g_">>, <<"!">>}

\* documents rich in images, with a title and a numbered name only
ImageDocs ==
    {Merge(BlankDoc, [variant |-> v, name |-> <<"i","l","a","n","-","1","2","7",".","h","t","m","l">>, h1 |-> t, items |-> x, dir |-> TRUE]) :
        v \in LiveVariants, t \in ImageTitles,
        x \in UNION {[1..n -> ImgTags] : n \in 0..MaxImgs}}
    \cup
    {Merge(BlankDoc, [variant |-> v, name |-> <<"i","l","a","n","-","1","2","7",".","h","t","m","l">>, h1 |-> t, items |-> x, dir |-> TRUE]) :
        v \in LocalVariants, t \in ImageTitles,
        x \in UNION {[1..n -> SavedEntries] : n \in 0..MaxImgs}}
    \cup
    {Merge(BlankDoc, [variant |-> v, name |-> <<"i","l","a","n","-","1","2","7",".","h","t","m","l">>, h1 |-> t]) :
        v \in LocalVariants, t \in ImageTitles}

\* more images than the cap: a page with ManyImgs different images for the
\* variant that fetches none of them, and a saved directory with ManyImgs
\* image files for the two variants in which a failed copy ends the run
ManyImgs == 101

ManyTags == [k \in 1..ManyImgs |-> [ds |-> <<>>, src |-> <<"h","t","t","p",":","/">> \o Dec(k) \o JPG]]

ManyEntries == [k \in 1..ManyImgs |-> [suffix |-> JPG, kind |-> "file"]]

ManyDocs ==
    {Merge(BlankDoc, [variant |-> "final", name |-> <<"i","l","a","n","-","1","2","7",".","h","t","m","l">>, h1 |-> <<"E","v">>,
                      items |-> ManyTags])}
    \cup
    {Merge(BlankDoc, [variant |-> v, name |-> <<"i","l","a","n","-","1","2","7",".","h","t","m","l">>, h1 |-> <<"E","v">>, dir |-> TRUE,
                      items |-> ManyEntries]) :
        v \in {"expert", "v12"}}

\* a page with an office number before the number of the 'Cep' row, no tel: link
LabelledDocs ==
    {Merge(BlankDoc, [variant |-> v, name |-> <<"i","l","a","n","-","1","2","7",".","h","t","m","l">>, h1 |-> <<"D","a","i","r","e">>,
                      labels |-> <<<<"C","e","p"," ","0"," ","(","5","3","3",")"," ","6","4","6"," ","1","6"," ","3","1">>>>,
                      text |-> <<"D","a","i","r","e"," ","O","f","i","s"," ","0","5","3","2"," ","1","1","1"," ","2","2"," ","3","3"," ","C","e","p"," ","0"," ","(","5","3","3",")"," ","6","4","6"," ","1","6"," ","3","1">>]) :
        v \in LiveVariants}

ListingDocs == LiveFieldDocs \cup StateFieldDocs \cup ImageDocs \cup ManyDocs \cup LabelledDocs

InitListing ==
    /\ pc = "start"
    /\ arg \in ListingDocs
    /\ res = <<>>
    /\ aux = <<>>
    /\ LoopIdle


---------------------------------------------------------------------------
(* The output files.  A file of disk is [by, data]: the number of the run  *)
(* that wrote it last and its content; the content of a CSV file is the    *)
(* sequence of its rows.                                                   *)

\* the columns of a row, in the order of the record literal
Columns ==
    <<"url_offline", "listing_id", "title", "price", "city", "district", "neighborhood",
      "gross_m2", "net_m2", "room_count", "floor", "heating", "building_age", "furnished",
      "swap", "credit_eligible", "in_site", "owner_name", "phone", "description",
      "image_count", "image_paths", "is_real_estate">>

\* writer.writerow(record): the values in column order
Row(rec) == [i \in 1..Len(Columns) |-> rec[Columns[i]]]

\* the number of the run in progress (from 1)
RunNo == Len(log) + 1

\* the file at path is created or replaced
Write(d, path, content) ==
    [p \in DOMAIN d \cup {path} |-> IF p = path THEN content ELSE d[p]]

LISTING_CSV == <<"l","i","s","t","i","n","g",".","c","s","v">>
META_JSON == <<"m","e","t","a",".","j","s","o","n">>

\* base_dir = Path("data") / slugify(title)[:80]
BaseDir(title) ==
    IF Slice(lib_slugify(title), 0, 80) = <<>> THEN DATA
    ELSE DATA \o <<"/">> \o Slice(lib_slugify(title), 0, 80)

\* listing.csv and meta.json, which the expert, v12 and v2 variants write
\* into base_dir with mode "w"
PerListingFiles(d, title, rec) ==
    Write(Write(d, BaseDir(title) \o <<"/">> \o LISTING_CSV,
                [by |-> RunNo, data |-> <<Columns, Row(rec)>>]),
          BaseDir(title) \o <<"/">> \o META_JSON, [by |-> RunNo, data |-> rec])

\* save_csv / save_to_master_csv: open(path, "a"), the header when the file
\* did not exist, then the row
save_csv(d, path, rec) ==
    IF path \in DOMAIN d
    THEN Write(d, path, [by |-> RunNo, data |-> Append(d[path].data, Row(rec))])
    ELSE Write(d, path, [by |-> RunNo, data |-> <<Columns, Row(rec)>>])

\* the default output files of the variants
FINAL_CSV == <<"i","l","a","n","l","a","r","_","f","i","n","a","l","1",".","c","s","v">>
PARSER_CSV == <<"i","l","a","n","l","a","r","_","f","u","l","l",".","c","s","v">>
MASTER_CSV == <<"d","a","t","a","/","o","f","f","l","i","n","e","_","a","l","l","_","l","i","s","t","i","n","g","s",".","c","s","v">>
V4_CSV == <<"d","a","t","a","/","o","f","f","l","i","n","e","_","s","i","n","g","l","e","_","l","i","s","t","i","n","g","_","c","l","e","a","n","1",".","c","s","v">>
BASE_CSV == <<"d","a","t","a","/","o","f","f","l","i","n","e","_","s","i","n","g","l","e","_","l","i","s","t","i","n","g",".","c","s","v">>

OutputCsv(variant) ==
    CASE variant = "final" -> FINAL_CSV
      [] variant = "parser" -> PARSER_CSV
      [] variant = "app" -> <<"i","l","a","n","l","a","r","_","o","u","t","p","u","t",".","c","s","v">>
      [] variant = "v4" -> V4_CSV
      [] variant = "base" -> BASE_CSV
      [] OTHER -> MASTER_CSV

\* the writer of the v4 variant: open(output_csv, "w"), header and row
write_csv(d, path, rec) == Write(d, path, [by |-> RunNo, data |-> <<Columns, Row(rec)>>])

\* the columns whose cells are no text: a count and a flag
TypedColumns == {"image_count", "is_real_estate"}

IsIntLiteral(t) == t # <<>> /\ \A i \in 1..Len(t) : t[i] \in DigitChars

\* str(int(t)): the leading zeros go
RECURSIVE IntRepr(_)
IntRepr(t) == IF Len(t) > 1 /\ Head(t) = "0" THEN IntRepr(Tail(t)) ELSE t

\* pd.read_csv then to_csv on the cells of one text column, for cells that
\* are empty, a run of digits, or text that is no number, no flag and no NA
\* marker: a column of digit runs is read as integers, one of digit runs
\* and empty cells as floats, an empty cell as NaN and written empty
ReadColumn(cells) ==
    LET full == {i \in 1..Len(cells) : cells[i] # <<>>}
    IN  IF full = {} \/ \E i \in full : ~IsIntLiteral(cells[i]) THEN cells
        ELSE IF full = 1..Len(cells) THEN [i \in 1..Len(cells) |-> IntRepr(cells[i])]
        ELSE [i \in 1..Len(cells) |->
                 IF cells[i] = <<>> THEN <<>> ELSE IntRepr(cells[i]) \o <<".", "0">>]

\* old = pd.read_csv(output_csv), as to_csv writes its rows back
read_csv(rows) ==
    [i \in 1..Len(rows) |->
        [c \in 1..Len(Columns) |->
            IF Columns[c] \in TypedColumns THEN rows[i][c]
            ELSE ReadColumn([j \in 1..Len(rows) |-> rows[j][c]])[i]]]

\* the writer of the base variant: pd.DataFrame([record]), pd.concat with
\* the file read back when it exists, to_csv
concat_to_csv(d, path, rec) ==
    IF path \in DOMAIN d
    THEN Write(d, path, [by |-> RunNo,
                         data |-> <<Columns>> \o read_csv(Tail(d[path].data)) \o <<Row(rec)>>])
    ELSE Write(d, path, [by |-> RunNo, data |-> <<Columns, Row(rec)>>])

---------------------------------------------------------------------------
(* One run of a variant on a document: the fields are read, the images     *)
(* are fetched or copied one by one, the record is built.                  *)

\* the fields are read into the local variables (aux)
ReadDocument ==
    /\ pc = "start"
    /\ ~(arg.variant \in LocalVariants /\ PriceRaises(arg))
    /\ aux' = Locals(arg)
    /\ pc' = "fields"
    /\ UNCHANGED <<arg, res, imgs, pos, saved, todo, disk, log>>

\* "price": null in the state: .get is called on None and the run ends
ReadRaises ==
    /\ pc = "start"
    /\ arg.variant \in LocalVariants
    /\ PriceRaises(arg)
    /\ pc' = "raised"
    /\ UNCHANGED <<arg, res, aux, imgs, pos, saved, todo, disk, log>>

\* the list the loop runs over
LoopList == IF arg.variant \in LiveVariants THEN SubSeq(imgs, 1, Min(Len(imgs), IMG_CAP)) ELSE imgs

\* the img elements are scanned and de-duplicated; the loop starts
CollectLive ==
    /\ pc = "fields"
    /\ arg.variant \in {"parser", "app"}
    /\ imgs' = Candidates(arg.items)
    /\ pos' = 1
    /\ saved' = <<>>
    /\ pc' = "loop"
    /\ UNCHANGED <<arg, res, aux, todo, disk, log>>

\* extract_images of the final variant: one path per candidate, none fetched
CollectPathsOnly ==
    /\ pc = "fields"
    /\ arg.variant = "final"
    /\ imgs' = Candidates(arg.items)
    /\ saved' = [k \in 1..Min(Len(Candidates(arg.items)), IMG_CAP) |->
                    LivePath("final", aux.title, k, <<>>)]
    /\ pos' = Min(Len(Candidates(arg.items)), IMG_CAP) + 1
    /\ pc' = "loop"
    /\ UNCHANGED <<arg, res, aux, todo, disk, log>>

\* image_paths = copy_images(...) if saved_dir.exists() else []
CollectLocal ==
    /\ pc = "fields"
    /\ arg.variant \in LocalVariants
    /\ imgs' = IF arg.dir THEN arg.items ELSE <<>>
    /\ pos' = 1
    /\ saved' = <<>>
    /\ pc' = "loop"
    /\ UNCHANGED <<arg, res, aux, todo, disk, log>>

InLoop == pc = "loop" /\ pos <= Len(LoopList)

\* if not url.startswith("http"): continue
SkipRelative ==
    /\ InLoop
    /\ arg.variant \in LiveVariants
    /\ ~StartsWith(LoopList[pos], <<"h","t","t","p">>)
    /\ pos' = pos + 1
    /\ UNCHANGED <<pc, arg, res, aux, imgs, saved, todo, disk, log>>

\* requests.get answers 200: the image is written and its path appended
FetchOk ==
    /\ InLoop
    /\ arg.variant \in LiveVariants
    /\ StartsWith(LoopList[pos], <<"h","t","t","p">>)
    /\ saved' = Append(saved, LivePath(arg.variant, aux.title, pos, LoopList[pos]))
    /\ disk' = Write(disk, LivePath(arg.variant, aux.title, pos, LoopList[pos]),
                     [by |-> RunNo, data |-> LoopList[pos]])
    /\ pos' = pos + 1
    /\ UNCHANGED <<pc, arg, res, aux, imgs, todo, log>>

\* requests.get answers another status, times out or raises
FetchFail ==
    /\ InLoop
    /\ arg.variant \in LiveVariants
    /\ StartsWith(LoopList[pos], <<"h","t","t","p">>)
    /\ pos' = pos + 1
    /\ UNCHANGED <<pc, arg, res, aux, imgs, saved, todo, disk, log>>

\* an entry whose suffix is no image suffix (base: or that is no file)
SkipEntry ==
    /\ InLoop
    /\ arg.variant \in LocalVariants
    /\ ~Wanted(arg.variant, LoopList[pos])
    /\ pos' = pos + 1
    /\ UNCHANGED <<pc, arg, res, aux, imgs, saved, todo, disk, log>>

\* shutil.copy2 succeeds
CopyOk ==
    /\ InLoop
    /\ arg.variant \in LocalVariants
    /\ Wanted(arg.variant, LoopList[pos])
    /\ LoopList[pos].kind = "file"
    /\ saved' = Append(saved, CopyPath(arg.variant, aux.title, Len(saved) + 1, LoopList[pos].suffix))
    /\ disk' = Write(disk, CopyPath(arg.variant, aux.title, Len(saved) + 1, LoopList[pos].suffix),
                     [by |-> RunNo, data |-> <<arg.name, pos>>])
    /\ pos' = pos + 1
    /\ UNCHANGED <<pc, arg, res, aux, imgs, todo, log>>

\* shutil.copy2 raises (an unreadable file, a directory named like an image)
\* and the variant catches it
CopyFailCaught ==
    /\ InLoop
    /\ arg.variant \in {"v2", "v4", "base"}
    /\ Wanted(arg.variant, LoopList[pos])
    /\ pos' = pos + 1
    /\ UNCHANGED <<pc, arg, res, aux, imgs, saved, todo, disk, log>>

\* shutil.copy2 raises and nothing catches it: the run ends without a record
CopyFailRaised ==
    /\ InLoop
    /\ arg.variant \in {"expert", "v12"}
    /\ Wanted(arg.variant, LoopList[pos])
    /\ pc' = "raised"
    /\ UNCHANGED <<arg, res, aux, imgs, pos, saved, todo, disk, log>>

\* the paths the record takes (v4 and base first drop repeated paths)
ImagePaths == IF arg.variant \in {"v4", "base"} THEN Dedupe(saved) ELSE saved

\* the loop is over: the record is built and, in the variants that write
\* inside the parse function, written
BuildRecord ==
    /\ pc = "loop"
    /\ pos > Len(LoopList)
    /\ ~IdRaises(arg)
    /\ res' = Record(arg, aux, ImagePaths)
    /\ disk' = CASE arg.variant \in {"expert", "v12", "v2"} ->
                         PerListingFiles(disk, aux.title, Record(arg, aux, ImagePaths))
                   [] arg.variant = "v4" ->
                         write_csv(disk, V4_CSV, Record(arg, aux, ImagePaths))
                   [] arg.variant = "base" ->
                         concat_to_csv(disk, BASE_CSV, Record(arg, aux, ImagePaths))
                   [] OTHER -> disk
    /\ pc' = "done"
    /\ UNCHANGED <<arg, aux, imgs, pos, saved, todo, log>>

\* the name holds no digit: .group(1) is called on None and the run ends
BuildRaises ==
    /\ pc = "loop"
    /\ pos > Len(LoopList)
    /\ IdRaises(arg)
    /\ pc' = "raised"
    /\ UNCHANGED <<arg, res, aux, imgs, pos, saved, todo, disk, log>>

NextListing ==
    \/ ReadDocument \/ ReadRaises
    \/ CollectLive \/ CollectPathsOnly \/ CollectLocal
    \/ SkipRelative \/ FetchOk \/ FetchFail
    \/ SkipEntry \/ CopyOk \/ CopyFailCaught \/ CopyFailRaised
    \/ BuildRecord \/ BuildRaises

SpecListing == InitListing /\ [][NextListing]_vars

---------------------------------------------------------------------------
(* Properties of the record.                                               *)

(* C1: the record of parse_listing (final and expert variants) holds every *)
(* declared field, and no string field other than listing_id is empty: a   *)
(* field that nothing resolved holds a sentinel or a default.              *)
C1_RecordComplete ==
    (pc = "done" /\ arg.variant \in {"final", "expert"}) =>
        /\ DOMAIN res = Fields
        /\ \A f \in StringFields \ {"listing_id", "image_paths"} : res[f] # <<>>

\* the references a ';'-joined field holds
RefCount(field) == IF field = <<>> THEN 0 ELSE 1 + Count(field, {";"})

(* C2: in the record of every variant, image_count is the number of        *)
(* references in the ';'-joined image_paths, whatever was skipped, failed  *)
(* or copied.                                                              *)
C2_ImageCount ==
    pc = "done" => res.image_count = RefCount(res.image_paths)

C2_Witness ==
    /\ pc = "done"
    /\ arg.variant = "v2"
    /\ Len(arg.items) = 3
    /\ res.image_count = 2
    /\ Count(res.title, {";"}) = 1

\* what the markup of the document offers for a field
MarkupValues(doc, f) ==
    CASE f = "title" -> {doc.h1}
      [] f = "price" -> {doc.price_el, clean_price_tl(doc.detail_price)}
      [] f = "description" -> {doc.desc_el}
      [] f = "city" ->
            {extract_breadcrumb(doc)[1], parse_location_from_h2(doc.h2)[1],
             AttrGet(doc.attrs, "Il", <<>>)}
      [] f = "district" ->
            {extract_breadcrumb(doc)[2], parse_location_from_h2(doc.h2)[2],
             AttrGet(doc.attrs, "Ilce", <<>>)}
      [] f = "neighborhood" ->
            {extract_breadcrumb(doc)[3], parse_location_from_h2(doc.h2)[3],
             AttrGet(doc.attrs, "Mahalle", <<>>)}
      [] f = "owner_name" -> {doc.owner_el, doc.user_el}
      [] OTHER -> {FindLabelled(doc.labels).raw}

\* what the embedded state of the document supplies for a field
StateValue(doc, f) ==
    CASE f = "title" -> doc.state.title
      [] f = "price" -> StatePrice(doc)
      [] f = "description" -> doc.state.description
      [] f = "city" -> doc.state.city
      [] f = "district" -> doc.state.town
      [] f = "neighborhood" -> doc.state.quarter
      [] f = "owner_name" -> doc.state.user_name
      [] OTHER -> doc.state.user_phone

StateFields ==
    {"title", "price", "description", "city", "district", "neighborhood", "owner_name", "phone"}

\* the state and the markup both offer a value for the field, and not the same
Disagree(doc, f) ==
    /\ StateValue(doc, f) # <<>>
    /\ \E m \in MarkupValues(doc, f) : m # <<>> /\ m # StateValue(doc, f)

\* the field holds the value of the state (white space at its ends aside)
HoldsState(f) ==
    res[f] = StateValue(arg, f) \/ res[f] = Strip(StateValue(arg, f), SpaceChars)

(* C3: in the variants that read the embedded state, a field for which the *)
(* state supplies a non-empty value and the markup a different one holds   *)
(* the value of the state.                                                 *)
C3_StateWins ==
    (pc = "done" /\ arg.variant \in LocalVariants) =>
        \A f \in StateFields : Disagree(arg, f) => HoldsState(f)

\* it does hold in the expert variant for the fields other than the three of
\* the location, and in the other variants for all eight
C3_StateWinsElsewhere ==
    (pc = "done" /\ arg.variant \in LocalVariants) =>
        \A f \in StateFields :
            (Disagree(arg, f) /\ ~(arg.variant = "expert" /\ f \in {"city", "district", "neighborhood"}))
            => HoldsState(f)

\* the first place of x in t
FirstAt(x, t) == CHOOSE k \in 1..Len(t) : t[k] = x /\ \A j \in 1..(k - 1) : t[j] # x
AllSrcs(tags) == [k \in 1..Len(tags) |-> TagSrc(tags[k])]

(* C9: the candidate list holds every accepted URL exactly once, in the    *)
(* order of first occurrence in the markup, and the image references of    *)
(* the record are pairwise distinct.                                       *)
C9_Candidates ==
    (pc \in {"loop", "done"} /\ arg.variant \in LiveVariants) =>
        /\ \A k \in 1..Len(arg.items) :
             IsImageUrl(TagSrc(arg.items[k])) =>
                Cardinality({j \in 1..Len(imgs) : imgs[j] = TagSrc(arg.items[k])}) = 1
        /\ \A j \in 1..Len(imgs) : InSeq(imgs[j], AllSrcs(arg.items)) /\ IsImageUrl(imgs[j])
        /\ \A j, k \in 1..Len(imgs) :
             j < k => FirstAt(imgs[j], AllSrcs(arg.items)) < FirstAt(imgs[k], AllSrcs(arg.items))
        /\ \A j, k \in 1..Len(saved) : j # k => saved[j] # saved[k]
        /\ pc = "done" =>
             \A j \in 1..Len(saved) : Occurrences(res.image_paths, saved[j]) = 1

C9_Witness ==
    /\ pc = "done"
    /\ arg.variant = "app"
    /\ Len(arg.items) = 3
    /\ TagSrc(arg.items[1]) = TagSrc(arg.items[3])
    /\ TagSrc(arg.items[1]) # TagSrc(arg.items[2])
    /\ Len(imgs) = 2
    /\ res.image_count = 2

(* C12: the record of every variant, live or local, holds at most 100      *)
(* image references, however many img elements or saved image files the    *)
(* document has.                                                           *)
C12_AtMost100 ==
    pc = "done" => res.image_count <= 100 /\ RefCount(res.image_paths) <= 100

\* it does hold in the live variants, whose candidate list is cut
C12_LiveAtMost100 ==
    (pc = "done" /\ arg.variant \in LiveVariants) =>
        res.image_count <= 100 /\ RefCount(res.image_paths) <= 100

\* the cap acts: more candidates than 100, and 100 references
C12_WitnessCap ==
    /\ pc = "done"
    /\ arg.variant = "final"
    /\ Len(imgs) > IMG_CAP
    /\ res.image_count = IMG_CAP

\* the first run of decimal digits of t, <<>> when t holds no digit
DigitRunFrom(t, i) ==
    SubSeq(t, i, CHOOSE k \in i..Len(t) :
                    /\ \A j \in i..k : t[j] \in DigitChars
                    /\ k = Len(t) \/ t[k + 1] \notin DigitChars)
FirstDigitRun(t) == IF HasDigit(t) THEN DigitRunFrom(t, FirstDigit(t)) ELSE <<>>

(* C13: in the final variant, parser.py, app.py, v2 and v4, a run that     *)
(* nothing else stops produces a record whatever the source reference is,  *)
(* and its listing_id is the first digit run of the reference, empty when  *)
(* the reference holds no digit.                                           *)
C13_ListingId ==
    (arg.variant \in {"final", "parser", "app", "v2", "v4"} /\ ~PriceRaises(arg)) =>
        /\ pc # "raised"
        /\ pc = "done" => res.listing_id = FirstDigitRun(arg.name)

\* it does hold in app.py
C13_ListingIdApp ==
    arg.variant = "app" =>
        /\ pc # "raised"
        /\ pc = "done" => res.listing_id = FirstDigitRun(arg.name)

C13_WitnessApp ==
    pc = "done" /\ arg.variant = "app" /\ ~HasDigit(arg.name) /\ res.listing_id = <<>>

(* C14: a step taken inside the image loop, whether the fetch or copy of   *)
(* the image succeeds or fails, moves on to the next image and keeps the   *)
(* paths recorded so far: a failure omits that image alone and never ends  *)
(* the run.                                                                *)
C14_FailureOmitsOneImage ==
    [][InLoop =>
          /\ pc' = "loop"
          /\ pos' = pos + 1
          /\ Len(saved') >= Len(saved)
          /\ SubSeq(saved', 1, Len(saved)) = saved]_vars

\* it does hold in the variants that fetch, and in v2, v4 and base
C14_CaughtWhereTried ==
    [][(InLoop /\ arg.variant \notin {"expert", "v12"}) =>
          /\ pc' = "loop"
          /\ pos' = pos + 1
          /\ Len(saved') >= Len(saved)
          /\ SubSeq(saved', 1, Len(saved)) = saved]_vars

\* v2: the second of three images failed, the other two are in the record
C14_WitnessCaught ==
    /\ pc = "done"
    /\ arg.variant = "v2"
    /\ Len(arg.items) = 3
    /\ \A k \in 1..3 : Wanted("v2", arg.items[k])
    /\ res.image_count = 2

\* the six attributes extract_attrs has a pattern for in both variants
RegexLabels ==
    [gross_m2 |-> "Brut m2", net_m2 |-> "Net m2", room_count |-> "Oda Sayisi",
     floor |-> "Bulundugu Kat", heating |-> "Isitma", building_age |-> "Bina Yasi"]

PatternsOf(variant) == IF variant = "expert" THEN ExpertRx ELSE V12Rx

---------------------------------------------------------------------------
\* the three strategies of the phone cascade, stated by position
TelHrefs(doc) == {i \in 1..Len(doc.hrefs) : Found(Search(TelPat, doc.hrefs[i]))}
LabelledWithNumber(doc) ==
    {j \in 1..Len(doc.labels) : Found(Search(MobilePat, clean_spaces(doc.labels[j])))}
FirstOf(S) == CHOOSE i \in S : \A j \in S : i <= j
OnlyDigits(t) == SelectSeq(t, LAMBDA c : c \in DigitChars)
MatchIn(t) == Group0(t, Search(MobilePat, t))
NoStrategyMatches(doc) ==
    TelHrefs(doc) = {} /\ LabelledWithNumber(doc) = {} /\ ~Found(Search(MobilePat, doc.text))
CascadeOf(doc) ==
    IF TelHrefs(doc) # {}
    THEN format_phone_digits(OnlyDigits(doc.hrefs[FirstOf(TelHrefs(doc))]))
    ELSE IF LabelledWithNumber(doc) # {}
    THEN format_phone_digits(MatchIn(clean_spaces(doc.labels[FirstOf(LabelledWithNumber(doc))])))
    ELSE IF Found(Search(MobilePat, doc.text))
    THEN format_phone_digits(MatchIn(doc.text))
    ELSE SENTINEL

(* C20: the phone of a record of the live variants is the first match of   *)
(* the cascade tel: link, labelled element, page text, passed through      *)
(* format_phone_digits, and the sentinel exactly when no strategy matches. *)
C20_Cascade ==
    (pc = "done" /\ arg.variant \in LiveVariants) =>
        /\ res.phone = CascadeOf(arg)
        /\ res.phone = SENTINEL <=> NoStrategyMatches(arg)

\* C20 for the function extract_phone itself (final variant and parser.py);
\* aux is the strategy that supplied the result
C20_CascadeExtractPhone ==
    pc = "done" =>
        /\ res = CascadeOf(arg)
        /\ res = SENTINEL <=> NoStrategyMatches(arg)
        /\ aux = 1 <=> TelHrefs(arg) # {}
        /\ aux = 2 <=> (TelHrefs(arg) = {} /\ LabelledWithNumber(arg) # {})
        /\ aux = 0 <=> NoStrategyMatches(arg)

\* the labelled element supplies a number that is not the first of the page
C20_WitnessLabelBeforeText ==
    /\ pc = "done"
    /\ aux = 2
    /\ Found(Search(MobilePat, arg.text))
    /\ res # format_phone_digits(MatchIn(arg.text))

\* the record of the variants that call extract_phone
C20_CascadeInRecord ==
    (pc = "done" /\ arg.variant \in {"final", "parser"}) => res.phone = CascadeOf(arg)


(***************************************************************************)
(* extract_attrs on the rows of a page.  A text is a string here; an       *)
(* element a row may lack (strong, span, th, td) is a sequence of at most  *)
(* one text.  arg.first and arg.second are the rows of the two selectors,  *)
(* in document order.                                                      *)
(***************************************************************************)
MaxRows == 2

\* txt(tag): tag.get_text(strip = True) if tag else ""
txt(tag) == IF tag = <<>> THEN "" ELSE tag[1]

\* attrs[k] = v
Put(attrs, k, v) == [x \in DOMAIN attrs \cup {k} |-> IF x = k THEN v ELSE attrs[x]]

\* for li in soup.select(".classifiedInfoList li"): ... if k: attrs[k] = v
RECURSIVE LiPass(_, _)
LiPass(attrs, rows) ==
    IF rows = <<>> THEN attrs
    ELSE LET k == txt(Head(rows).key)
             v == txt(Head(rows).val)
         IN  LiPass(IF k # "" THEN Put(attrs, k, v) ELSE attrs, Tail(rows))

\* for row in soup.select("table tr"): ... if th and td: attrs[txt(th)] = txt(td)
RECURSIVE TrPass(_, _)
TrPass(attrs, rows) ==
    IF rows = <<>> THEN attrs
    ELSE LET th == Head(rows).key
             td == Head(rows).val
         IN  TrPass(IF th # <<>> /\ td # <<>> THEN Put(attrs, txt(th), txt(td)) ELSE attrs,
                    Tail(rows))

\* for row in soup.select(table_sel): tds = row.find_all(["td", "span"]);
\* if len(tds) >= 2: attrs[safe_text(tds[0])] = safe_text(tds[1])
RECURSIVE CellPass(_, _)
CellPass(attrs, rows) ==
    IF rows = <<>> THEN attrs
    ELSE LET tds == Head(rows)
         IN  CellPass(IF Len(tds) >= 2 THEN Put(attrs, tds[1], tds[2]) ELSE attrs, Tail(rows))

\* extract_attrs of parser.py, app.py and the final variant
extract_attrs(doc) == TrPass(LiPass(<<>>, doc.first), doc.second)

\* the row loops of extract_attrs of the expert and v12 variants
extract_attrs_rows(doc) == CellPass(CellPass(<<>>, doc.first), doc.second)

SeqsUpTo(S, n) == UNION {[1..k -> S] : k \in 0..n}

TagRows == [key : {<<>>, <<"">>, <<"Isitma">>}, val : {<<>>, <<"Kombi">>, <<"Yok">>}]

CellRows ==
    {<<>>, <<"Isitma">>, <<"Isitma", "Kombi">>, <<"Isitma", "Yok">>, <<"Takas", "Yok">>,
     <<"Isitma", "Soba", "Yok">>, <<"", "Kombi">>}

AttrDocs ==
    [variant : {"final"}, first : SeqsUpTo(TagRows, MaxRows), second : SeqsUpTo(TagRows, MaxRows)]
    \cup [variant : {"expert"}, first : SeqsUpTo(CellRows, MaxRows),
          second : SeqsUpTo(CellRows, MaxRows)]

InitAttrs ==
    /\ pc = "start"
    /\ LoopIdle
    /\ arg \in AttrDocs
    /\ res = <<>>
    /\ aux = <<>>

\* attrs = extract_attrs(soup), live variants
ExtractAttrsLive ==
    /\ pc = "start"
    /\ arg.variant = "final"
    /\ res' = extract_attrs(arg)
    /\ pc' = "done"
    /\ UNCHANGED <<arg, aux>>
    /\ UNCHANGED loopVars

\* attrs = extract_attrs(soup), saved-page variants, on a page whose text
\* matches none of the patterns
ExtractAttrsRows ==
    /\ pc = "start"
    /\ arg.variant = "expert"
    /\ res' = extract_attrs_rows(arg)
    /\ pc' = "done"
    /\ UNCHANGED <<arg, aux>>
    /\ UNCHANGED loopVars

NextAttrs == ExtractAttrsLive \/ ExtractAttrsRows

SpecAttrs == InitAttrs /\ [][NextAttrs]_vars

\* the rows that enter the table, as <<label, value>>, in the order seen
EnteredOf(v, pass, rows) ==
    LET ok(r) == IF v = "expert" THEN Len(r) >= 2
                 ELSE IF pass = 1 THEN txt(r.key) # ""
                 ELSE r.key # <<>> /\ r.val # <<>>
        kept == SelectSeq(rows, ok)
    IN  [i \in 1..Len(kept) |->
            IF v = "expert" THEN <<kept[i][1], kept[i][2]>>
            ELSE <<txt(kept[i].key), txt(kept[i].val)>>]

Entered == EnteredOf(arg.variant, 1, arg.first) \o EnteredOf(arg.variant, 2, arg.second)

RowsOf(l) == {i \in 1..Len(Entered) : Entered[i][1] = l}

(* C18: a label that occurs in several rows keeps the value of the first   *)
(* row seen, within a pass and across the two passes.                      *)
C18_FirstRowKept ==
    pc = "done" =>
        /\ DOMAIN res = {Entered[i][1] : i \in 1..Len(Entered)}
        /\ \A l \in DOMAIN res :
               \A i \in RowsOf(l) : (\A j \in RowsOf(l) : i <= j) => res[l] = Entered[i][2]

\* what the assignment attrs[k] = v does: the last row seen supplies the value
C18_LastRowKept ==
    pc = "done" =>
        /\ DOMAIN res = {Entered[i][1] : i \in 1..Len(Entered)}
        /\ \A l \in DOMAIN res :
               \A i \in RowsOf(l) : (\A j \in RowsOf(l) : j <= i) => res[l] = Entered[i][2]

\* a label in two rows with different values
C18_WitnessRepeated ==
    /\ pc = "done"
    /\ \E i, j \in 1..Len(Entered) :
           i < j /\ Entered[i][1] = Entered[j][1] /\ Entered[i][2] # Entered[j][2]


---------------------------------------------------------------------------
(* parse_route of app.py.  arg is the request and the process it runs in   *)
(* (url: <<>> when the parameter is missing or empty; available: the       *)
(* constant PUPPETEER_AVAILABLE); aux holds status, result and the fetch   *)
(* calls made so far; res is the response; log the responses sent.         *)

MaxRequests == 2

\* status of fetch_via_requests when requests.get raised
NoStatus == -1

APP_CSV == OutputCsv("app")

RouteUrls == {<<>>, <<"h","t","t","p",":","/","/","s","/","i","l","a","n","-","1","2","7">>, <<"h","t","t","p",":","/","/","s","/","i","l","a","n">>}

\* what a server answers, parsed: a page without a title and one with
RoutePages == {BlankDoc, [BlankDoc EXCEPT !.h1 = <<"D","a","i","r","e">>]}

StatusCodes == {200, 204, 301, 403, 404, 500}

\* (status, text) of fetch_via_requests; an error text is not empty
PlainOutcomes ==
    [status : StatusCodes, empty : {FALSE}, page : RoutePages]
    \cup [status : StatusCodes, empty : {TRUE}, page : {BlankDoc}]
    \cup [status : {NoStatus}, empty : {FALSE}, page : {BlankDoc}]

\* (ok, html) of fetch_via_pyppeteer when pyppeteer is installed
RenderOutcomes == [ok : {TRUE}, page : RoutePages] \cup [ok : {FALSE}, page : {BlankDoc}]

\* parse_html_to_record(url, html, offline_path = url) of a page without images
parse_html_to_record(url, page) ==
    LET doc == [page EXCEPT !.variant = "app", !.name = url]
    IN  Record(doc, Locals(doc), <<>>)

NoLocals == [status |-> NoStatus, empty |-> TRUE, page |-> BlankDoc, calls |-> <<>>]

InitRoute ==
    /\ pc = "idle"
    /\ LoopIdle
    /\ arg \in [url : {<<>>}, available : BOOLEAN]
    /\ res = <<>>
    /\ aux = NoLocals

\* a request arrives: url = request.values.get("url")
Request ==
    /\ pc = "idle"
    /\ Len(log) < MaxRequests
    /\ \E u \in RouteUrls : arg' = [arg EXCEPT !.url = u]
    /\ aux' = NoLocals
    /\ res' = <<>>
    /\ pc' = "route"
    /\ UNCHANGED loopVars

\* if not url: 400
NoUrl ==
    /\ pc = "route"
    /\ arg.url = <<>>
    /\ res' = [code |-> 400, result |-> "url param yok", record |-> <<>>]
    /\ pc' = "responded"
    /\ UNCHANGED <<arg, aux>>
    /\ UNCHANGED loopVars

\* status, result = fetch_via_requests(url)
FetchViaRequests ==
    /\ pc = "route"
    /\ arg.url # <<>>
    /\ \E out \in PlainOutcomes :
           aux' = [status |-> out.status, empty |-> out.empty, page |-> out.page,
                   calls |-> <<"requests">>]
    /\ pc' = "fetched"
    /\ UNCHANGED <<arg, res>>
    /\ UNCHANGED loopVars

PlainOk == aux.status = 200 /\ ~aux.empty

\* status is None or (status and status >= 400)
PlainFailed == aux.status = NoStatus \/ (aux.status # 0 /\ aux.status >= 400)

\* OkRequests without the call of save_csv
OkRequestsUnsaved ==
    /\ pc = "fetched"
    /\ PlainOk
    /\ LET record == parse_html_to_record(arg.url, aux.page)
       IN  res' = [code |-> 200, result |-> "ok_requests", record |-> record]
    /\ pc' = "responded"
    /\ UNCHANGED <<arg, aux>>
    /\ UNCHANGED loopVars

\* if status == 200 and result: parse, save_csv, "ok_requests"
OkRequests ==
    /\ pc = "fetched"
    /\ PlainOk
    /\ LET record == parse_html_to_record(arg.url, aux.page)
       IN  /\ disk' = save_csv(disk, APP_CSV, record)
           /\ res' = [code |-> 200, result |-> "ok_requests", record |-> record]
    /\ pc' = "responded"
    /\ UNCHANGED <<arg, aux, imgs, pos, saved, todo, log>>

\* fetch_via_pyppeteer returned (True, html): parse, save_csv, "ok_pyppeteer"
RenderOk ==
    /\ pc = "fetched"
    /\ ~PlainOk /\ PlainFailed
    /\ arg.available
    /\ \E out \in RenderOutcomes :
           /\ out.ok
           /\ LET record == parse_html_to_record(arg.url, out.page)
              IN  /\ disk' = save_csv(disk, APP_CSV, record)
                  /\ res' = [code |-> 200, result |-> "ok_pyppeteer", record |-> record]
    /\ aux' = [aux EXCEPT !.calls = Append(@, "pyppeteer")]
    /\ pc' = "responded"
    /\ UNCHANGED <<arg, imgs, pos, saved, todo, log>>

\* fetch_via_pyppeteer returned (False, error): 502
RenderFails ==
    /\ pc = "fetched"
    /\ ~PlainOk /\ PlainFailed
    /\ arg.available
    /\ \E out \in RenderOutcomes : ~out.ok
    /\ aux' = [aux EXCEPT !.calls = Append(@, "pyppeteer")]
    /\ res' = [code |-> 502, result |-> "pyppeteer-hata", record |-> <<>>]
    /\ pc' = "responded"
    /\ UNCHANGED arg
    /\ UNCHANGED loopVars

\* PUPPETEER_AVAILABLE is False: 502
RenderNotAvailable ==
    /\ pc = "fetched"
    /\ ~PlainOk /\ PlainFailed
    /\ ~arg.available
    /\ res' = [code |-> 502, result |-> "requests_failed_and_pyppeteer_not_available",
               record |-> <<>>]
    /\ pc' = "responded"
    /\ UNCHANGED <<arg, aux>>
    /\ UNCHANGED loopVars

\* the last return of the route: 500
UnknownError ==
    /\ pc = "fetched"
    /\ ~PlainOk /\ ~PlainFailed
    /\ res' = [code |-> 500, result |-> "Bilinmeyen hata", record |-> <<>>]
    /\ pc' = "responded"
    /\ UNCHANGED <<arg, aux>>
    /\ UNCHANGED loopVars

\* the response is sent
Respond ==
    /\ pc = "responded"
    /\ log' = Append(log, [code |-> res.code, result |-> res.result])
    /\ pc' = "idle"
    /\ UNCHANGED <<arg, res, aux, imgs, pos, saved, todo, disk>>

NextRoute ==
    \/ Request \/ NoUrl \/ FetchViaRequests \/ OkRequests \/ RenderOk \/ RenderFails
    \/ RenderNotAvailable \/ UnknownError \/ Respond

SpecRoute == InitRoute /\ [][NextRoute]_vars

(* C17: the render fetch is made only after a failed plain fetch; a        *)
(* request whose plain fetch did not give status 200 with a body ends in   *)
(* ok_pyppeteer or in a 502; a request without url ends in 400, no fetch.  *)
C17_Route ==
    /\ (\E i \in 1..Len(aux.calls) : aux.calls[i] = "pyppeteer") =>
           (aux.calls = <<"requests", "pyppeteer">> /\ ~PlainOk)
    /\ (pc = "responded" /\ aux.calls # <<>> /\ ~PlainOk) =>
           (res.result = "ok_pyppeteer" \/ res.code = 502)
    /\ (pc = "responded" /\ arg.url = <<>>) => (res.code = 400 /\ aux.calls = <<>>)

\* the parts of C17 the route keeps: the order of the fetches and the 400
C17_RenderOnlyAfterFailure ==
    /\ (\E i \in 1..Len(aux.calls) : aux.calls[i] = "pyppeteer") =>
           (aux.calls = <<"requests", "pyppeteer">> /\ ~PlainOk)
    /\ (pc = "responded" /\ arg.url = <<>>) => (res.code = 400 /\ aux.calls = <<>>)
    /\ (pc = "responded" /\ aux.calls # <<>> /\ PlainFailed) =>
           (res.result = "ok_pyppeteer" \/ res.code = 502)

C17_WitnessRendered ==
    /\ pc = "responded"
    /\ res.result = "ok_pyppeteer"
    /\ aux.status = 403

\* the rows of the output file after its header
CsvRows(d) == IF APP_CSV \in DOMAIN d THEN Tail(d[APP_CSV].data) ELSE <<>>

OkResults == {"ok_requests", "ok_pyppeteer"}

\* the requests answered so far with one of the two ok results
OkAnswers ==
    Cardinality({i \in 1..Len(log) : log[i].result \in OkResults})
        + (IF pc = "responded" /\ res.result \in OkResults THEN 1 ELSE 0)

(* C27: in the /parse route, over any sequence of requests, exactly one    *)
(* row is appended to the output CSV for each request answered with        *)
(* ok_requests or ok_pyppeteer, and a request answered with an error (400, *)
(* 502, 500) leaves the CSV unchanged.                                     *)
C27_OneRowPerOk ==
    /\ [](Len(CsvRows(disk)) = OkAnswers)
    /\ [](pc = "responded" =>
             \/ res.result \in OkResults /\ res.code = 200
             \/ res.result \notin OkResults /\ res.code \in {400, 502, 500})
    /\ [][disk' # disk =>
             /\ pc' = "responded" /\ res'.result \in OkResults
             /\ DOMAIN disk' = {APP_CSV}
             /\ CsvRows(disk') = Append(CsvRows(disk), Row(res'.record))]_vars
    /\ [][(pc' = "responded" /\ pc # "responded" /\ res'.result \notin OkResults) =>
             disk' = disk]_vars

\* an ok answer and then an error: the file holds its header and one row
C27_WitnessOkThenError ==
    /\ pc = "idle"
    /\ Len(log) = 2
    /\ log[1].result = "ok_requests"
    /\ log[2].code = 502
    /\ APP_CSV \in DOMAIN disk
    /\ Len(disk[APP_CSV].data) = 2


---------------------------------------------------------------------------
(* A session: the documents of a list are processed one after the other    *)
(* on the same disk, by the loop of main (final variant, parser.py) or by  *)
(* one run of the program per document (the other variants).  todo is the  *)
(* rest of the list, log the outcome of every document processed so far.   *)

MaxDocs == 2

\* the variants that are run on saved documents from a command line
BatchVariants == {"final", "parser"} \cup LocalVariants

SessionItems(v) ==
    IF v \in LiveVariants
    THEN <<[ds |-> <<>>, src |-> U_JPG], [ds |-> <<>>, src |-> U_RELATIVE]>>
    ELSE <<[suffix |-> <<".","j","p","g">>, kind |-> "file"], [suffix |-> <<".","t","x","t">>, kind |-> "file"]>>

\* two listings with the same title, one whose name holds no digit, and one
\* whose state has "price": null
SessionDocs(v) ==
    {Merge(BlankDoc, [variant |-> v, name |-> x.name, h1 |-> x.title, state |-> x.state,
                      items |-> SessionItems(v), dir |-> TRUE]) :
        x \in {[name |-> <<"i","l","a","n","-","1","2","7",".","h","t","m","l">>, title |-> <<"D","a","i","r","e">>,
                state |-> [NoState EXCEPT !.user_phone = <<"0","5","3","3","6","4","6","1","6","3","1">>]],
               [name |-> <<"i","l","a","n","-","1","2","8",".","h","t","m","l">>, title |-> <<"D","a","i","r","e">>, state |-> NoState],
               [name |-> <<"i","l","a","n",".","h","t","m","l">>, title |-> <<"E","v">>, state |-> NoState],
               [name |-> <<"i","l","a","n","-","1","2","9",".","h","t","m","l">>, title |-> <<"E","v">>,
                state |-> [NoState EXCEPT !.price = [kind |-> "null", value |-> <<>>]]]}}

InitSession ==
    /\ pc = "main"
    /\ \E v \in BatchVariants :
           /\ arg = [BlankDoc EXCEPT !.variant = v]
           /\ todo \in UNION {[1..n -> SessionDocs(v)] : n \in 0..MaxDocs}
    /\ res = <<>>
    /\ aux = <<>>
    /\ imgs = <<>> /\ pos = 0 /\ saved = <<>>
    /\ disk = NoFiles
    /\ log = <<>>

\* the variants whose driver calls save_csv / save_to_master_csv
HasSaver(v) == v \in {"final", "parser", "expert", "v12"}

\* save_csv(rec) / save_to_master_csv(record, args.out)
SaveCsv ==
    /\ pc = "done"
    /\ HasSaver(arg.variant)
    /\ disk' = save_csv(disk, OutputCsv(arg.variant), res)
    /\ pc' = "saved"
    /\ UNCHANGED <<arg, res, aux, imgs, pos, saved, todo, log>>

\* open(path, "a") raises: the file is locked or may not be written
SaveRaises ==
    /\ pc = "done"
    /\ HasSaver(arg.variant)
    /\ pc' = "raised"
    /\ UNCHANGED <<arg, res, aux, imgs, pos, saved, todo, disk, log>>

\* the call for the document is over: it returned or raised
Returned ==
    \/ pc \in {"saved", "raised"}
    \/ pc = "done" /\ ~HasSaver(arg.variant)

Outcome ==
    [name |-> arg.name,
     title |-> arg.h1,
     outcome |-> IF pc = "raised" THEN "raised" ELSE "saved",
     rec |-> IF pc = "raised" THEN <<>> ELSE res,
     paths |-> IF pc = "raised" THEN <<>> ELSE ImagePaths]

LogAfter == IF pc = "main" THEN log ELSE Append(log, Outcome)

\* for html in html_files: the next document; an exception of the previous
\* one was caught and printed (main), or ended the previous run
NextDocument ==
    /\ pc = "main" \/ Returned
    /\ todo # <<>>
    /\ log' = LogAfter
    /\ arg' = Head(todo)
    /\ todo' = Tail(todo)
    /\ res' = <<>>
    /\ aux' = <<>>
    /\ imgs' = <<>> /\ pos' = 0 /\ saved' = <<>>
    /\ pc' = "start"
    /\ UNCHANGED disk

\* the list is exhausted
Finish ==
    /\ pc = "main" \/ Returned
    /\ todo = <<>>
    /\ log' = LogAfter
    /\ pc' = "end"
    /\ UNCHANGED <<arg, res, aux, imgs, pos, saved, todo, disk>>

NextSession == NextListing \/ SaveCsv \/ SaveRaises \/ NextDocument \/ Finish

SpecSession == InitSession /\ [][NextSession]_vars

\* the records of the persistence calls that returned, in call order
Persisted ==
    LET past == SelectSeq(log, LAMBDA e : e.outcome = "saved")
        recs == [i \in 1..Len(past) |-> past[i].rec]
    IN  IF \/ pc = "saved"
           \/ pc = "done" /\ arg.variant \in {"v4", "base"}
        THEN Append(recs, res)
        ELSE recs

\* the file holds one header row, then the rows of the calls in call order
CsvHoldsCalls ==
    IF Persisted = <<>> THEN OutputCsv(arg.variant) \notin DOMAIN disk
    ELSE /\ OutputCsv(arg.variant) \in DOMAIN disk
         /\ disk[OutputCsv(arg.variant)].data =
                <<Columns>> \o [i \in 1..Len(Persisted) |-> Row(Persisted[i])]

(* C11: after n successful persistence calls on a file that did not exist  *)
(* the file holds one header row and the n records in call order; no       *)
(* earlier row is removed or rewritten (every variant that writes a CSV).  *)
C11_HeaderThenRecords == arg.variant # "v2" => CsvHoldsCalls

\* C11 for save_csv and save_to_master_csv, which append
C11_AppendKeepsRows == HasSaver(arg.variant) => CsvHoldsCalls

C11_WitnessTwoRows ==
    /\ pc = "saved"
    /\ Len(Persisted) = 2
    /\ Len(disk[OutputCsv(arg.variant)].data) = 3

OutputCsvs == {OutputCsv(v) : v \in BatchVariants}

\* the call for the document in progress has produced its record
HasRecord == pc \in {"done", "saved"}

(* C16: the asset paths recorded for a document are disjoint from those    *)
(* of every earlier document, and no image file or per-listing file        *)
(* written for an earlier document is overwritten later.                   *)
C16_Independent ==
    /\ [](HasRecord =>
            \A i \in 1..Len(log) :
                \A j \in 1..Len(log[i].paths), k \in 1..Len(ImagePaths) :
                    log[i].paths[j] # ImagePaths[k])
    /\ [][\A p \in DOMAIN disk :
              (p \notin OutputCsvs /\ disk[p].by < RunNo) => disk'[p] = disk[p]]_vars

\* C16 for documents whose titles differ
C16_DistinctTitles ==
    HasRecord =>
        \A i \in 1..Len(log) :
            log[i].title # arg.h1 =>
                \A j \in 1..Len(log[i].paths), k \in 1..Len(ImagePaths) :
                    log[i].paths[j] # ImagePaths[k]

C16_WitnessTwoTitles ==
    /\ HasRecord
    /\ Len(log) = 1
    /\ log[1].title # arg.h1
    /\ log[1].paths # <<>>
    /\ ImagePaths # <<>>


---------------------------------------------------------------------------
(* main of the final variant and of parser.py, one loop iteration a step:  *)
(* rec = parse_listing(html); save_csv(rec), or the except branch.  todo   *)
(* is the rest of html_files, log the outcome of every document so far.    *)

MainVariants == {"final", "parser"}

InitMain ==
    /\ pc = "main"
    /\ \E v \in MainVariants :
           /\ arg = [BlankDoc EXCEPT !.variant = v]
           /\ todo \in UNION {[1..n -> SessionDocs(v)] : n \in 0..MaxDocs}
    /\ res = <<>>
    /\ aux = <<>>
    /\ imgs = <<>> /\ pos = 0 /\ saved = <<>>
    /\ disk = NoFiles
    /\ log = <<>>

\* the outcome logged for the document: what it printed or appended
Raised(doc) ==
    [name |-> doc.name, title |-> doc.h1, outcome |-> "raised",
     rec |-> <<>>, paths |-> <<>>]

\* the images a fetch is made for; the final variant fetches none and
\* records a path for every candidate of imgs[:100]
Fetched(variant, list) ==
    {k \in 1..Min(Len(list), IMG_CAP) :
        variant = "final" \/ StartsWith(list[k], <<"h","t","t","p">>)}

\* the numbered images of ok, in order, with the paths they are saved under
SavedImages(variant, title, list, ok) ==
    SelectSeq([k \in 1..Min(Len(list), IMG_CAP) |->
                  [k |-> k, src |-> list[k],
                   path |-> LivePath(variant, title, k, list[k])]],
              LAMBDA e : e.k \in ok)

\* the files download_images writes (parser.py; the final variant writes none)
WriteImages(d, variant, kept) ==
    IF variant = "final" THEN d
    ELSE [p \in DOMAIN d \cup {kept[i].path : i \in 1..Len(kept)} |->
             IF \E i \in 1..Len(kept) : kept[i].path = p
             THEN [by |-> RunNo,
                   data |-> kept[CHOOSE i \in 1..Len(kept) : kept[i].path = p].src]
             ELSE d[p]]

\* mutant: no except branch, the exception leaves main
OpenRaisesAndLeaves ==
    /\ pc = "main"
    /\ todo # <<>>
    /\ log' = Append(log, Raised(Head(todo)))
    /\ arg' = Head(todo)
    /\ todo' = Tail(todo)
    /\ res' = <<>>
    /\ pc' = "end"
    /\ UNCHANGED <<aux, imgs, pos, saved, disk>>

\* html_path.read_text raises (the file is gone or may not be read): no
\* image was fetched, the except branch prints and the loop goes on
OpenRaises ==
    /\ pc = "main"
    /\ todo # <<>>
    /\ log' = Append(log, Raised(Head(todo)))
    /\ arg' = Head(todo)
    /\ todo' = Tail(todo)
    /\ res' = <<>>
    /\ UNCHANGED <<pc, aux, imgs, pos, saved, disk>>

\* the try block raises after extract_images, at the listing id or in
\* save_csv: the files fetched stay, the except branch prints and the loop
\* goes on
IterationRaises ==
    /\ pc = "main"
    /\ todo # <<>>
    /\ arg' = Head(todo)
    /\ aux' = Locals(arg')
    /\ imgs' = Candidates(arg'.items)
    /\ pos' = Min(Len(imgs'), IMG_CAP) + 1
    /\ \E ok \in SUBSET Fetched(arg'.variant, imgs') :
       \E kept \in {SavedImages(arg'.variant, aux'.title, imgs', ok)} :
           /\ arg'.variant = "final" => ok = Fetched(arg'.variant, imgs')
           /\ saved' = [i \in 1..Len(kept) |-> kept[i].path]
           /\ disk' = WriteImages(disk, arg'.variant, kept)
    /\ log' = Append(log, Raised(arg'))
    /\ todo' = Tail(todo)
    /\ res' = <<>>
    /\ UNCHANGED pc

\* rec = parse_listing(html); save_csv(rec)
IterationSaves ==
    /\ pc = "main"
    /\ todo # <<>>
    /\ arg' = Head(todo)
    /\ ~IdRaises(arg')
    /\ aux' = Locals(arg')
    /\ imgs' = Candidates(arg'.items)
    /\ pos' = Min(Len(imgs'), IMG_CAP) + 1
    /\ \E ok \in SUBSET Fetched(arg'.variant, imgs') :
       \E kept \in {SavedImages(arg'.variant, aux'.title, imgs', ok)} :
           /\ arg'.variant = "final" => ok = Fetched(arg'.variant, imgs')
           /\ saved' = [i \in 1..Len(kept) |-> kept[i].path]
           /\ res' = Record(arg', aux', saved')
           /\ disk' = save_csv(WriteImages(disk, arg'.variant, kept),
                               OutputCsv(arg'.variant), res')
    /\ log' = Append(log, [name |-> arg'.name, title |-> arg'.h1,
                           outcome |-> "saved", rec |-> res', paths |-> saved'])
    /\ todo' = Tail(todo)
    /\ UNCHANGED pc

\* html_files is empty, or the for loop is over
MainReturns ==
    /\ pc = "main"
    /\ todo = <<>>
    /\ pc' = "end"
    /\ UNCHANGED <<arg, res, aux, imgs, pos, saved, todo, disk, log>>

NextMain == MainReturns \/ OpenRaises \/ IterationRaises \/ IterationSaves

SpecMain == InitMain /\ [][NextMain]_vars

\* the process is not suspended for ever
SpecMainFair == SpecMain /\ WF_vars(NextMain)

\* the names of the list: documents done, the one in progress, those to come
Names ==
    [i \in 1..Len(log) |-> log[i].name]
    \o (IF pc \in {"main", "end"} THEN <<>> ELSE <<arg.name>>)
    \o [i \in 1..Len(todo) |-> todo[i].name]

(* C15: in the batch loop a document whose parsing or saving raises is     *)
(* skipped, every other document is appended to the CSV in list order, no  *)
(* document of the list is dropped, and the loop reaches the end of the    *)
(* list.                                                                   *)
C15_BatchContinues ==
    /\ [](arg.variant \in {"final", "parser"} => CsvHoldsCalls)
    /\ [][Names' = Names]_vars
    /\ <>(pc = "end" /\ todo = <<>>)

\* a document that raised, then one that was appended
C15_WitnessAfterRaise ==
    /\ pc = "end"
    /\ arg.variant \in {"final", "parser"}
    /\ Len(log) = 2
    /\ log[1].outcome = "raised"
    /\ log[2].outcome = "saved"
    /\ disk[OutputCsv(arg.variant)].data = <<Columns, Row(log[2].rec)>>


---------------------------------------------------------------------------
\* the decimal digits of a text, in order
DigitsOf(t) == SelectSeq(t, LAMBDA c : c \in DigitChars)

\* the digit strings format_phone_digits rewrites
Formattable(d) ==
    \/ Len(d) = 10 /\ d[1] = "5"
    \/ Len(d) >= 11 /\ d[1] = "0"

(* C22: format_phone_digits returns the sentinel for the empty input, and  *)
(* every non-empty input whose digits are neither 10 digits starting with  *)
(* 5 nor 11 or more digits starting with 0 is returned unchanged,          *)
(* character for character.                                                *)
C22_UnformattableUnchanged ==
    pc \in {"once", "twice", "trunk"} =>
        /\ arg = <<>> => res = SENTINEL
        /\ (arg # <<>> /\ ~Formattable(DigitsOf(arg))) => res = arg

\* an input with a label and too few digits came back as it was
C22_Witness ==
    /\ pc = "once"
    /\ arg = <<"T","e","l",":"," ","+","0","5","5","5">>
    /\ res = arg

\* the candidates of the loop that are absolute URLs
Absolute == {k \in 1..Len(LoopList) : StartsWith(LoopList[k], <<"h","t","t","p">>)}

\* the record holds references of absolute candidates only, one at most for
\* each
OnlyAbsoluteRecorded ==
    /\ res.image_count <= Cardinality(Absolute)
    /\ RefCount(res.image_paths) <= Cardinality(Absolute)
    /\ \A i \in 1..Len(saved) :
           \E k \in Absolute : saved[i] = LivePath(arg.variant, aux.title, k, LoopList[k])

\* a step of the loop that writes a file is at an absolute candidate
OnlyAbsoluteFetched ==
    (pc = "loop" /\ arg.variant \in LiveVariants /\ disk' # disk) =>
        (pos \in Absolute /\ pos' = pos + 1)

(* C23: in the live variants (parser.py, app.py and the final variant) a   *)
(* candidate image URL that does not start with 'http' contributes no      *)
(* entry to image_paths or image_count of the record and is never fetched. *)
C23_RelativeSkipped ==
    /\ []((pc = "done" /\ arg.variant \in LiveVariants) => OnlyAbsoluteRecorded)
    /\ [][OnlyAbsoluteFetched]_vars

\* it does hold where the images are fetched, in parser.py and app.py
C23_SkippedWhereFetched ==
    /\ []((pc = "done" /\ arg.variant \in {"parser", "app"}) => OnlyAbsoluteRecorded)
    /\ [][OnlyAbsoluteFetched]_vars

\* a relative candidate was passed over and the absolute one after it saved
\* under its own number
C23_WitnessSkipped ==
    /\ pc = "done"
    /\ arg.variant = "parser"
    /\ Len(LoopList) >= 2
    /\ ~StartsWith(LoopList[1], <<"h","t","t","p">>)
    /\ 2 \in Absolute
    /\ saved = <<LivePath("parser", aux.title, 2, LoopList[2])>>
    /\ res.image_count = 1

\* city, district, neighborhood as the 'Il', 'Ilce', 'Mahalle' rows give them
RowValue(doc, i) ==
    AttrGet(doc.attrs, CASE i = 1 -> "Il" [] i = 2 -> "Ilce" [] OTHER -> "Mahalle", <<>>)

(* C26: in extract_location a non-empty city, district or neighborhood     *)
(* taken from the 'Il', 'Ilce', 'Mahalle' attribute rows is never replaced *)
(* by a value of the breadcrumb; the breadcrumb fills only components the  *)
(* rows left empty.                                                        *)
C26_RowsKept ==
    pc = "done" => \A i \in 1..3 : RowValue(arg, i) # <<>> => res[i] = RowValue(arg, i)

\* the rows are kept when both the city and the district row are there, or
\* fewer than three links remain after the filter
C26_KeptWhenCityAndDistrict ==
    (pc = "done" /\ \/ RowValue(arg, 1) # <<>> /\ RowValue(arg, 2) # <<>>
                    \/ Remaining(arg.crumbs) < 3) =>
        \A i \in 1..3 : RowValue(arg, i) # <<>> => res[i] = RowValue(arg, i)

\* both rows and a full breadcrumb: the rows are in the result
C26_WitnessRowsKept ==
    /\ pc = "done"
    /\ RowValue(arg, 1) # <<>> /\ RowValue(arg, 2) # <<>>
    /\ Remaining(arg.crumbs) >= 3
    /\ res[1] = RowValue(arg, 1) /\ res[2] = RowValue(arg, 2)
    /\ res[3] = DEFAULT_NEIGHBORHOOD


---------------------------------------------------------------------------
(* json.loads on JSON texts without \u escapes and exponents: the          *)
(* documents of the model hold none.  A value is [kind, text, members]:    *)
(* kind "object" with members a function from keys to values, "array"      *)
(* with members a sequence, "string" and "number" with their text,         *)
(* "null", "true", "false".                                                *)

JsonWs == {" ", "\t", "\n", "\r"}
Escapes == {"\"", "\\", "/", "b", "f", "n", "r", "t"}
ControlChars == {"\t", "\n", "\r"}

Atom(kind, text) == [kind |-> kind, text |-> text, members |-> <<>>]
EmptyDict == [kind |-> "object", text |-> <<>>, members |-> <<>>]
Failed == [ok |-> FALSE, val |-> Atom("null", <<>>), next |-> 0]
Parsed(val, next) == [ok |-> TRUE, val |-> val, next |-> next]

\* dict[key] = val
SetItem(members, key, val) ==
    [k \in DOMAIN members \cup {key} |-> IF k = key THEN val ELSE members[k]]

RECURSIVE SkipWs(_, _)
SkipWs(t, i) == IF i <= Len(t) /\ t[i] \in JsonWs THEN SkipWs(t, i + 1) ELSE i

\* the character an escape stands for
Unescape(c) ==
    CASE c = "b" -> "\\b" [] c = "f" -> "\\f" [] c = "n" -> "\n"
      [] c = "r" -> "\r" [] c = "t" -> "\t" [] OTHER -> c

\* the rest of a string whose opening quote was read
RECURSIVE StringFrom(_, _, _)
StringFrom(t, j, acc) ==
    IF j > Len(t) THEN Failed
    ELSE IF t[j] = "\"" THEN Parsed(Atom("string", acc), j + 1)
    ELSE IF t[j] = "\\"
         THEN IF j + 1 <= Len(t) /\ t[j + 1] \in Escapes
              THEN StringFrom(t, j + 2, Append(acc, Unescape(t[j + 1])))
              ELSE Failed
    ELSE IF t[j] \in ControlChars THEN Failed
    ELSE StringFrom(t, j + 1, Append(acc, t[j]))

RECURSIVE DigitsFrom(_, _)
DigitsFrom(t, i) == IF i <= Len(t) /\ t[i] \in AsciiDigits THEN DigitsFrom(t, i + 1) ELSE i

\* -?(0|[1-9]\d*)(\.\d+)?
NumberAt(t, i) ==
    LET a == IF i <= Len(t) /\ t[i] = "-" THEN i + 1 ELSE i
        b == IF a <= Len(t) /\ t[a] = "0" THEN a + 1 ELSE DigitsFrom(t, a)
        c == IF b + 1 <= Len(t) /\ t[b] = "." /\ DigitsFrom(t, b + 1) > b + 1
             THEN DigitsFrom(t, b + 1) ELSE b
    IN  IF b = a THEN Failed ELSE Parsed(Atom("number", SubSeq(t, i, c - 1)), c)

LiteralAt(t, i, word, kind) ==
    IF SubSeq(t, i, Min(Len(t), i + Len(word) - 1)) = word
    THEN Parsed(Atom(kind, <<>>), i + Len(word))
    ELSE Failed

RECURSIVE ValueAt(_, _)
RECURSIVE MembersFrom(_, _, _)
RECURSIVE ElementsFrom(_, _, _)

\* "key" : value , ... } with the key's opening quote at j
MembersFrom(t, j, acc) ==
    IF j > Len(t) \/ t[j] # "\"" THEN Failed
    ELSE LET key == StringFrom(t, j + 1, <<>>)
             colon == SkipWs(t, key.next)
             val == ValueAt(t, SkipWs(t, colon + 1))
             sep == SkipWs(t, val.next)
         IN  IF ~key.ok \/ colon > Len(t) \/ t[colon] # ":" THEN Failed
             ELSE IF ~val.ok \/ sep > Len(t) THEN Failed
             ELSE IF t[sep] = "}"
                  THEN Parsed([kind |-> "object", text |-> <<>>,
                               members |-> SetItem(acc, key.val.text, val.val)], sep + 1)
             ELSE IF t[sep] = ","
                  THEN MembersFrom(t, SkipWs(t, sep + 1), SetItem(acc, key.val.text, val.val))
             ELSE Failed

\* value , ... ]
ElementsFrom(t, j, acc) ==
    LET val == ValueAt(t, j)
        sep == SkipWs(t, val.next)
    IN  IF ~val.ok \/ sep > Len(t) THEN Failed
        ELSE IF t[sep] = "]"
             THEN Parsed([kind |-> "array", text |-> <<>>,
                          members |-> Append(acc, val.val)], sep + 1)
        ELSE IF t[sep] = ","
             THEN ElementsFrom(t, SkipWs(t, sep + 1), Append(acc, val.val))
        ELSE Failed

ValueAt(t, i) ==
    IF i > Len(t) THEN Failed
    ELSE CASE t[i] = "{" ->
                  IF SkipWs(t, i + 1) <= Len(t) /\ t[SkipWs(t, i + 1)] = "}"
                  THEN Parsed(EmptyDict, SkipWs(t, i + 1) + 1)
                  ELSE MembersFrom(t, SkipWs(t, i + 1), <<>>)
           [] t[i] = "[" ->
                  IF SkipWs(t, i + 1) <= Len(t) /\ t[SkipWs(t, i + 1)] = "]"
                  THEN Parsed([kind |-> "array", text |-> <<>>, members |-> <<>>],
                              SkipWs(t, i + 1) + 1)
                  ELSE ElementsFrom(t, SkipWs(t, i + 1), <<>>)
           [] t[i] = "\"" -> StringFrom(t, i + 1, <<>>)
           [] t[i] = "n" -> LiteralAt(t, i, <<"n","u","l","l">>, "null")
           [] t[i] = "t" -> LiteralAt(t, i, <<"t","r","u","e">>, "true")
           [] t[i] = "f" -> LiteralAt(t, i, <<"f","a","l","s","e">>, "false")
           [] OTHER -> NumberAt(t, i)

\* json.loads(t): [ok, val]; ok is FALSE where json.loads raises
loads(t) ==
    LET v == ValueAt(t, SkipWs(t, 1))
    IN  IF v.ok /\ SkipWs(t, v.next) = Len(t) + 1
        THEN [ok |-> TRUE, val |-> v.val]
        ELSE [ok |-> FALSE, val |-> Atom("null", <<>>)]


---------------------------------------------------------------------------
(* extract_json_state (the same text in the expert, v12, v2, v4 and base   *)
(* variants).  arg.scripts holds the text of the script elements of the    *)
(* page in document order, pos the block the loop is at.                   *)

MaxScripts == 3

\* \s of a str pattern
WsChars == SpaceChars \cup {"\r"}

\* window\.__INITIAL_STATE__\s*=\s*\{
StateHead ==
    Exact(<<"w","i","n","d","o","w",".","_","_","I","N","I","T","I","A","L","_","S","T","A","T","E","_","_">>) \o
    <<Star(WsChars), One({"="}), Star(WsChars), One({"{"})>>

\* .*?\}; after the opening brace: the index of the first "}" at or after
\* j that a ";" follows, 0 when there is none (re.S: "." takes a newline)
RECURSIVE CloseFrom(_, _)
CloseFrom(t, j) ==
    IF j + 1 > Len(t) THEN 0
    ELSE IF t[j] = "}" /\ t[j + 1] = ";" THEN j
    ELSE CloseFrom(t, j + 1)

\* re.search(r"window\.__INITIAL_STATE__\s*=\s*(\{.*?\});", txt, re.S):
\* [found, group1] of the leftmost match
RECURSIVE SearchStateFrom(_, _)
SearchStateFrom(t, i) ==
    IF i > Len(t) THEN [found |-> FALSE, group1 |-> <<>>]
    ELSE LET e == MatchAt(StateHead, t, i, 1)
         IN  IF e # 0 /\ CloseFrom(t, e) # 0
             THEN [found |-> TRUE, group1 |-> SubSeq(t, e - 1, CloseFrom(t, e))]
             ELSE SearchStateFrom(t, i + 1)

SearchState(t) == SearchStateFrom(t, 1)

ScriptTexts ==
    {<<>>,
     <<"v","a","r"," ","x"," ","="," ","1",";">>,
     <<"w","i","n","d","o","w",".","_","_","I","N","I","T","I","A","L","_","S","T","A","T","E","_","_"," ","="," ","{","\"","a","\"",":"," ","1","}",";">>,
     <<"v","a","r"," ","a"," ","="," ","{","}",";"," ","w","i","n","d","o","w",".","_","_","I","N","I","T","I","A","L","_","S","T","A","T","E","_","_","=","{","\"","c","l","a","s","s","i","f","i","e","d","D","e","t","a","i","l","\"",":"," ","{","\"","t","i","t","l","e","\"",":"," ","\"","E","v","\"","}","}",";"," ","f","(",")",";">>,
     <<"w","i","n","d","o","w",".","_","_","I","N","I","T","I","A","L","_","S","T","A","T","E","_","_"," ","=","\n","{","\"","c","l","a","s","s","i","f","i","e","d","\"",":"," ","{","\"","p","r","i","c","e","\"",":"," ","n","u","l","l","}",",","\n"," ","\"","n","\"",":"," ","[","1",","," ","-","2",".","5","]","}",";">>,
     <<"w","i","n","d","o","w",".","_","_","I","N","I","T","I","A","L","_","S","T","A","T","E","_","_"," ","="," ","{","\"","a","\"",":"," ","}",";">>,
     <<"w","i","n","d","o","w",".","_","_","I","N","I","T","I","A","L","_","S","T","A","T","E","_","_"," ","="," ","{","\"","a","\"",":"," ","\"","}",";","\"","}",";">>,
     <<"w","i","n","d","o","w",".","_","_","I","N","I","T","I","A","L","_","S","T","A","T","E","_","_"," ","="," ","{","\"","a","\"",":"," ","1","}">>,
     <<"w","i","n","d","o","w",".","_","_","I","N","I","T","I","A","L","_","S","T","A","T","E","_","_"," ","="," ","{","a","}",";"," ","w","i","n","d","o","w",".","_","_","I","N","I","T","I","A","L","_","S","T","A","T","E","_","_"," ","="," ","{","\"","b","\"",":"," ","2","}",";">>,
     <<"w","i","n","d","o","w","X","_","_","I","N","I","T","I","A","L","_","S","T","A","T","E","_","_"," ","="," ","{","\"","a","\"",":"," ","1","}",";">>}

InitState ==
    /\ pc = "scan"
    /\ arg \in {[scripts |-> s] : s \in UNION {[1..n -> ScriptTexts] : n \in 0..MaxScripts}}
    /\ pos = 1
    /\ res = <<>>
    /\ aux = <<>>
    /\ imgs = <<>> /\ saved = <<>> /\ todo = <<>> /\ disk = NoFiles /\ log = <<>>

AtBlock == pc = "scan" /\ pos <= Len(arg.scripts)

\* if not txt: continue
SkipEmptyBlock ==
    /\ AtBlock
    /\ arg.scripts[pos] = <<>>
    /\ pos' = pos + 1
    /\ UNCHANGED <<pc, arg, res, aux, imgs, saved, todo, disk, log>>

\* m is None
NoAssignment ==
    /\ AtBlock
    /\ arg.scripts[pos] # <<>>
    /\ ~SearchState(arg.scripts[pos]).found
    /\ pos' = pos + 1
    /\ UNCHANGED <<pc, arg, res, aux, imgs, saved, todo, disk, log>>

\* mutant: the exception of json.loads ends the scan with the empty mapping
LiteralFailsAndReturns ==
    /\ AtBlock
    /\ arg.scripts[pos] # <<>>
    /\ SearchState(arg.scripts[pos]).found
    /\ ~loads(SearchState(arg.scripts[pos]).group1).ok
    /\ res' = EmptyDict
    /\ pc' = "done"
    /\ UNCHANGED <<arg, pos, aux, imgs, saved, todo, disk, log>>

\* json.loads raises: except Exception: pass
LiteralFails ==
    /\ AtBlock
    /\ arg.scripts[pos] # <<>>
    /\ SearchState(arg.scripts[pos]).found
    /\ ~loads(SearchState(arg.scripts[pos]).group1).ok
    /\ pos' = pos + 1
    /\ UNCHANGED <<pc, arg, res, aux, imgs, saved, todo, disk, log>>

\* return json.loads(m.group(1))
ReturnState ==
    /\ AtBlock
    /\ arg.scripts[pos] # <<>>
    /\ SearchState(arg.scripts[pos]).found
    /\ loads(SearchState(arg.scripts[pos]).group1).ok
    /\ res' = loads(SearchState(arg.scripts[pos]).group1).val
    /\ pc' = "done"
    /\ UNCHANGED <<arg, pos, aux, imgs, saved, todo, disk, log>>

\* the loop is over: return {}
ReturnEmpty ==
    /\ pc = "scan"
    /\ pos > Len(arg.scripts)
    /\ res' = EmptyDict
    /\ pc' = "done"
    /\ UNCHANGED <<arg, pos, aux, imgs, saved, todo, disk, log>>

NextState == SkipEmptyBlock \/ NoAssignment \/ LiteralFails \/ ReturnState \/ ReturnEmpty

SpecState == InitState /\ [][NextState]_vars

\* the positions of t where 'window.__INITIAL_STATE__', white space, '=',
\* white space and '{' stand in a row, with the position of the brace
Assignments(t) ==
    {a \in {i \in 1..(Len(t) - 23) : SubSeq(t, i, i + 23) = <<"w","i","n","d","o","w",".","_","_","I","N","I","T","I","A","L","_","S","T","A","T","E","_","_">>}
            \X {b \in 1..Len(t) : t[b] = "{"} :
        /\ a[1] + 24 < a[2]
        /\ \E eq \in (a[1] + 24)..(a[2] - 1) :
              /\ t[eq] = "="
              /\ \A k \in (a[1] + 24)..(a[2] - 1) : k # eq => t[k] \in WsChars}

\* the positions after the brace where '};' stands
Closings(t, brace) ==
    {j \in (brace + 1)..(Len(t) - 1) : t[j] = "}" /\ t[j + 1] = ";"}

\* the assignments a closing '};' follows
Closed(t) == {a \in Assignments(t) : Closings(t, a[2]) # {}}

\* the literal of the block: from the brace of the first closed assignment
\* to the first '}' that a ';' follows
LiteralOf(t) ==
    LET first == CHOOSE a \in Closed(t) : \A b \in Closed(t) : a[1] <= b[1]
        close == CHOOSE j \in Closings(t, first[2]) : \A k \in Closings(t, first[2]) : j <= k
    IN  SubSeq(t, first[2], close)

BlockParses(t) == Closed(t) # {} /\ loads(LiteralOf(t)).ok

ParsingBlocks == {k \in 1..Len(arg.scripts) : BlockParses(arg.scripts[k])}

FirstParsing == CHOOSE k \in ParsingBlocks : \A j \in ParsingBlocks : k <= j

(* C21: extract_json_state never raises; it visits the script blocks in    *)
(* document order, skips every block without an __INITIAL_STATE__          *)
(* assignment or whose captured literal fails to parse, returns the        *)
(* parsed mapping of the first block that parses, and the empty mapping    *)
(* when no block parses.                                                   *)
C21_FirstParsingBlock ==
    /\ [](pc \in {"scan", "done"})
    /\ [](pc = "done" =>
              res = IF ParsingBlocks = {} THEN EmptyDict
                    ELSE loads(LiteralOf(arg.scripts[FirstParsing])).val)
    /\ [](pc = "scan" => \A k \in 1..(pos - 1) : ~BlockParses(arg.scripts[k]))
    /\ [][pos' \in {pos, pos + 1}]_vars

\* a block whose literal fails and a block without assignment were passed
\* over and the state of the third block returned
C21_Witness ==
    /\ pc = "done"
    /\ arg.scripts = <<<<"w","i","n","d","o","w",".","_","_","I","N","I","T","I","A","L","_","S","T","A","T","E","_","_"," ","="," ","{","\"","a","\"",":"," ","\"","}",";","\"","}",";">>,
                       <<"w","i","n","d","o","w",".","_","_","I","N","I","T","I","A","L","_","S","T","A","T","E","_","_"," ","="," ","{","\"","a","\"",":"," ","1","}">>,
                       <<"w","i","n","d","o","w",".","_","_","I","N","I","T","I","A","L","_","S","T","A","T","E","_","_"," ","="," ","{","\"","a","\"",":"," ","1","}",";">>>>
    /\ res.members = (<<"a">> :> Atom("number", <<"1">>))


---------------------------------------------------------------------------
(* The lines of the state-reading variants (expert, v12, v2, v4, base)     *)
(* that read the fields out of the mapping extract_json_state returned.    *)
(* arg.state is that mapping, aux.classified the sub-mapping chosen and    *)
(* aux.st what was read so far, pc the line the run is at.                 *)

None == Atom("null", <<>>)
Str(text) == Atom("string", text)
Dict(members) == [kind |-> "object", text |-> <<>>, members |-> members]

\* bool(v) of a value json.loads returns
Truthy(v) ==
    CASE v.kind \in {"object", "array"} -> v.members # <<>>
      [] v.kind = "string" -> v.text # <<>>
      [] v.kind = "number" -> \E i \in 1..Len(v.text) : v.text[i] \in AsciiDigits \ {"0"}
      [] v.kind = "true" -> TRUE
      [] OTHER -> FALSE

\* a or b
Or(a, b) == IF Truthy(a) THEN a ELSE b

\* d.get(key, default) of a dict d
Get(d, key, default) == IF key \in DOMAIN d.members THEN d.members[key] ELSE default

\* v.get exists: v is a dict (str, int, list and None have no get)
HasGet(v) == v.kind = "object"

\* the text of a value the record takes as it is
TextOf(v) == IF v.kind = "string" THEN v.text ELSE <<>>

\* what a key of the state may hold
Place(name) == Dict(<<"n","a","m","e">> :> Str(name))
SubValues(full) ==
    {None, EmptyDict, full, Str(<<"A","n","k","a","r","a">>), Atom("number", <<"0">>),
     [kind |-> "array", text |-> <<>>, members |-> <<Str(<<"x">>)>>]}

\* the members of classifiedDetail: price, city (town and quarter like it)
\* and user each absent or one of SubValues
Details ==
    {[k \in ({<<"t","i","t","l","e">>} \cup ks) |->
         CASE k = <<"t","i","t","l","e">> -> Str(<<"E","v">>)
           [] k = <<"p","r","i","c","e">> -> p
           [] k = <<"c","i","t","y">> -> c
           [] k = <<"t","o","w","n">> -> IF c.kind = "object" /\ c.members # <<>> THEN Place(<<"M","a","m","a","k">>) ELSE c
           [] k = <<"q","u","a","r","t","e","r">> -> IF c.kind = "object" /\ c.members # <<>> THEN Place(<<"B","a","h","a","r">>) ELSE c
           [] OTHER -> u] :
        ks \in SUBSET {<<"p","r","i","c","e">>, <<"c","i","t","y">>, <<"t","o","w","n">>, <<"q","u","a","r","t","e","r">>, <<"u","s","e","r">>},
        p \in SubValues(Dict(<<"v","a","l","u","e","F","o","r","m","a","t","t","e","d">> :> Str(<<"5",".","0","0","0"," ","T","L">>))),
        c \in SubValues(Place(<<"A","n","k","a","r","a">>)),
        u \in SubValues(Dict(<<"n","a","m","e">> :> Str(<<"A","l","i">>) @@ <<"p","h","o","n","e","N","u","m","b","e","r">> :> Str(<<"0","5","3","3">>)))}

\* the mappings extract_json_state may return
StateValues ==
    {EmptyDict}
    \cup {Dict(<<"c","l","a","s","s","i","f","i","e","d","D","e","t","a","i","l">> :> Dict(d)) : d \in Details}
    \cup {Dict(<<"c","l","a","s","s","i","f","i","e","d","D","e","t","a","i","l">> :> v @@ <<"c","l","a","s","s","i","f","i","e","d">> :> Dict(<<"t","i","t","l","e">> :> Str(<<"E","v">>))) :
             v \in SubValues(EmptyDict)}
    \cup {Dict(<<"c","l","a","s","s","i","f","i","e","d">> :> v) : v \in SubValues(EmptyDict)}

\* the page around the state: every field has a next tier
StatePage ==
    [BlankDoc EXCEPT !.name = <<"i","l","a","n","-","1","2","7",".","h","t","m","l">>, !.h1 = <<"D","a","i","r","e">>, !.h2 = <<"I_","z","m","i","r"," ","/"," ","K","o","n","a","k"," ","/"," ","A","l","s","a","n","c","a","k">>,
                     !.detail_price = <<"7",".","0","0","0"," ","T","L">>, !.desc_el = <<"i","y","i">>, !.user_el = <<"V","e","l","i">>,
                     !.crumbs = <<<<"A","n","a","s","a","y","f","a">>, <<"E","m","l","a","k">>, <<"K","o","n","u","t">>, <<"S","a","t","i_","l","i_","k">>, <<"I_","z","m","i","r">>>>]

InitFields ==
    /\ pc = "classified"
    /\ arg \in [variant : LocalVariants, state : StateValues]
    /\ aux = [classified |-> None, st |-> NoState]
    /\ res = <<>>
    /\ imgs = <<>> /\ pos = 0 /\ saved = <<>> /\ todo = <<>> /\ disk = NoFiles /\ log = <<>>

\* the line that follows a line, in the order of the variant
After(variant, line) ==
    CASE line = "title" -> IF variant = "v12" THEN "place" ELSE "price"
      [] line = "price" -> IF variant = "v12" THEN "user"
                           ELSE IF variant = "expert" THEN "user" ELSE "place"
      [] line = "place" -> IF variant = "v12" THEN "price" ELSE "user"
      [] OTHER -> "record"

\* classified = state.get("classifiedDetail") or state.get("classified") or {}
GetClassified ==
    /\ pc = "classified"
    /\ aux' = [aux EXCEPT !.classified =
                  Or(Or(Get(arg.state, <<"c","l","a","s","s","i","f","i","e","d","D","e","t","a","i","l">>, None),
                        Get(arg.state, <<"c","l","a","s","s","i","f","i","e","d">>, None)), EmptyDict)]
    /\ pc' = "title"
    /\ UNCHANGED <<arg, res, imgs, pos, saved, todo, disk, log>>

\* title = classified.get("title") or ...; the description is read the same way
ReadTitle ==
    /\ pc = "title"
    /\ HasGet(aux.classified)
    /\ aux' = [aux EXCEPT !.st.title = TextOf(Get(aux.classified, <<"t","i","t","l","e">>, None)),
                          !.st.description = TextOf(Get(aux.classified, <<"d","e","s","c","r","i","p","t","i","o","n">>, None))]
    /\ pc' = After(arg.variant, "title")
    /\ UNCHANGED <<arg, res, imgs, pos, saved, todo, disk, log>>

\* classified is a str, a number or a list: AttributeError
ReadTitleRaises ==
    /\ pc = "title"
    /\ ~HasGet(aux.classified)
    /\ pc' = "raised"
    /\ UNCHANGED <<arg, res, aux, imgs, pos, saved, todo, disk, log>>

\* the value classified.get("price", {}) gives
PriceValue == Get(aux.classified, <<"p","r","i","c","e">>, EmptyDict)

\* price = classified.get("price", {}).get("valueFormatted", ...)
ReadPrice ==
    /\ pc = "price"
    /\ HasGet(PriceValue)
    /\ aux' = [aux EXCEPT !.st.price =
                  [kind |-> "object",
                   value |-> TextOf(Get(PriceValue, <<"v","a","l","u","e","F","o","r","m","a","t","t","e","d">>, None))]]
    /\ pc' = After(arg.variant, "price")
    /\ UNCHANGED <<arg, res, imgs, pos, saved, todo, disk, log>>

\* "price" is null, a str, a number or a list: AttributeError
ReadPriceRaises ==
    /\ pc = "price"
    /\ ~HasGet(PriceValue)
    /\ pc' = "raised"
    /\ UNCHANGED <<arg, res, aux, imgs, pos, saved, todo, disk, log>>

\* the value (classified.get(key) or {}) gives
OrEmpty(key) == Or(Get(aux.classified, key, None), EmptyDict)

\* city, district, neighborhood = (classified.get(...) or {}).get("name", "")
ReadPlace ==
    /\ pc = "place"
    /\ \A key \in {<<"c","i","t","y">>, <<"t","o","w","n">>, <<"q","u","a","r","t","e","r">>} : HasGet(OrEmpty(key))
    /\ aux' = [aux EXCEPT !.st.city = TextOf(Get(OrEmpty(<<"c","i","t","y">>), <<"n","a","m","e">>, None)),
                          !.st.town = TextOf(Get(OrEmpty(<<"t","o","w","n">>), <<"n","a","m","e">>, None)),
                          !.st.quarter = TextOf(Get(OrEmpty(<<"q","u","a","r","t","e","r">>), <<"n","a","m","e">>, None))]
    /\ pc' = After(arg.variant, "place")
    /\ UNCHANGED <<arg, res, imgs, pos, saved, todo, disk, log>>

\* "city", "town" or "quarter" is a non-empty str, a number or a list
ReadPlaceRaises ==
    /\ pc = "place"
    /\ \E key \in {<<"c","i","t","y">>, <<"t","o","w","n">>, <<"q","u","a","r","t","e","r">>} : ~HasGet(OrEmpty(key))
    /\ pc' = "raised"
    /\ UNCHANGED <<arg, res, aux, imgs, pos, saved, todo, disk, log>>

\* owner_name, phone = (classified.get("user") or {}).get(...)
ReadUser ==
    /\ pc = "user"
    /\ HasGet(OrEmpty(<<"u","s","e","r">>))
    /\ aux' = [aux EXCEPT !.st.user_name = TextOf(Get(OrEmpty(<<"u","s","e","r">>), <<"n","a","m","e">>, None)),
                          !.st.user_phone = TextOf(Get(OrEmpty(<<"u","s","e","r">>), <<"p","h","o","n","e","N","u","m","b","e","r">>, None))]
    /\ pc' = After(arg.variant, "user")
    /\ UNCHANGED <<arg, res, imgs, pos, saved, todo, disk, log>>

\* "user" is a non-empty str, a number or a list
ReadUserRaises ==
    /\ pc = "user"
    /\ ~HasGet(OrEmpty(<<"u","s","e","r">>))
    /\ pc' = "raised"
    /\ UNCHANGED <<arg, res, aux, imgs, pos, saved, todo, disk, log>>

\* the fields of the record, each with the tiers that follow the state
ResolveFields ==
    /\ pc = "record"
    /\ res' = Locals([StatePage EXCEPT !.variant = arg.variant, !.state = aux.st])
    /\ pc' = "resolved"
    /\ UNCHANGED <<arg, aux, imgs, pos, saved, todo, disk, log>>

NextFields ==
    \/ GetClassified \/ ReadTitle \/ ReadTitleRaises \/ ReadPrice \/ ReadPriceRaises
    \/ ReadPlace \/ ReadPlaceRaises \/ ReadUser \/ ReadUserRaises \/ ResolveFields

SpecFields == InitFields /\ [][NextFields]_vars

\* the sub-mapping the fields are read from, None when it is no mapping
Classified ==
    LET c == Or(Or(Get(arg.state, <<"c","l","a","s","s","i","f","i","e","d","D","e","t","a","i","l">>, None),
                   Get(arg.state, <<"c","l","a","s","s","i","f","i","e","d">>, None)), EmptyDict)
    IN  IF c.kind = "object" THEN c ELSE None

\* the keys a variant reads a sub-object for
SubKeys(variant) ==
    IF variant = "expert" THEN {<<"p","r","i","c","e">>, <<"u","s","e","r">>}
    ELSE {<<"p","r","i","c","e">>, <<"c","i","t","y">>, <<"t","o","w","n">>, <<"q","u","a","r","t","e","r">>, <<"u","s","e","r">>}

\* the sub-object under the key is absent, null or not an object
Unusable(key) ==
    \/ Classified = None
    \/ key \notin DOMAIN Classified.members
    \/ Classified.members[key].kind # "object"

\* the state gave nothing for the fields read through the key
Unresolved(key) ==
    CASE key = <<"p","r","i","c","e">> -> aux.st.price.value = <<>>
      [] key = <<"c","i","t","y">> -> aux.st.city = <<>>
      [] key = <<"t","o","w","n">> -> aux.st.town = <<>>
      [] key = <<"q","u","a","r","t","e","r">> -> aux.st.quarter = <<>>
      [] OTHER -> aux.st.user_name = <<>> /\ aux.st.user_phone = <<>>

(* C24: when the state parses but a sub-object it is read through          *)
(* (classifiedDetail/classified, price, city, town, quarter, user) is      *)
(* absent, null or not an object, the state-reading variants treat the     *)
(* fields behind it as unresolved and go on to the next tier or default;   *)
(* the run never raises and the record is produced.                        *)
C24_SubObjectMissing ==
    /\ pc # "raised"
    /\ pc = "resolved" =>
          \A key \in SubKeys(arg.variant) : Unusable(key) => Unresolved(key)

\* what the code does put up with: a key that is absent, and for city,
\* town, quarter, user and the sub-mapping itself a value that is false
\* (null, 0, an empty string, list or mapping)
PutUpWith(key) ==
    \/ key \notin DOMAIN Classified.members
    \/ Classified.members[key].kind = "object"
    \/ key # <<"p","r","i","c","e">> /\ ~Truthy(Classified.members[key])

C24_AbsentOrFalse ==
    /\ pc = "raised" =>
          (Classified = None \/ \E key \in SubKeys(arg.variant) : ~PutUpWith(key))
    /\ pc = "resolved" =>
          /\ Classified # None
          /\ \A key \in SubKeys(arg.variant) : PutUpWith(key)
          /\ \A key \in SubKeys(arg.variant) : Unusable(key) => Unresolved(key)

\* no price key, "city": null and "user": 0: the record is produced from
\* the next tiers
C24_WitnessFallsThrough ==
    /\ pc = "resolved"
    /\ arg.variant = "v2"
    /\ <<"p","r","i","c","e">> \notin DOMAIN Classified.members
    /\ <<"c","i","t","y">> \in DOMAIN Classified.members /\ Classified.members[<<"c","i","t","y">>] = None
    /\ <<"u","s","e","r">> \in DOMAIN Classified.members /\ Classified.members[<<"u","s","e","r">>].kind = "number"
    /\ res.price = <<"7",".","0","0","0"," ","T","L">>
    /\ res.city = <<"I_","z","m","i","r">>
    /\ res.owner_name = <<"V","e","l","i">>


---------------------------------------------------------------------------
(* pick of the final variant on small attribute tables, and the eight      *)
(* free-form fields parse_listing takes through it.                        *)

MaxKeys == 2

PickLabels == {"Oda Sayisi", "Isitma", "Kombi (Dogalgaz)"}
PickValues == {<<>>, <<" ">>, <<"Y","o","k">>, <<"3","+","1">>}

\* the tables extract_attrs may give for the labels
PickTables == UNION {[ks -> PickValues] : ks \in SUBSET PickLabels}

InitPick ==
    /\ pc = "start"
    /\ arg \in [attrs : PickTables,
                keys : UNION {[1..n -> PickLabels] : n \in 0..MaxKeys},
                default : {SENTINEL, <<"4">>}]
    /\ res = <<>>
    /\ aux = <<>>
    /\ LoopIdle

\* pick(*keys, default=default)
Pick ==
    /\ pc = "start"
    /\ res' = pick(arg.attrs, arg.keys, arg.default)
    /\ pc' = "picked"
    /\ UNCHANGED <<arg, aux>>
    /\ UNCHANGED loopVars

\* the free-form fields of the record
PickFields ==
    /\ pc = "start"
    /\ res' = FinalPicks(arg.attrs)
    /\ pc' = "fields"
    /\ UNCHANGED <<arg, aux>>
    /\ UNCHANGED loopVars

NextPick == Pick \/ PickFields

SpecPick == InitPick /\ [][NextPick]_vars

FreeFormFields ==
    {"room_count", "floor", "heating", "building_age", "furnished", "swap",
     "credit_eligible", "in_site"}

\* the candidate keys that are present with a value that is not blank
Present(attrs, keys) ==
    {i \in 1..Len(keys) :
        keys[i] \in DOMAIN attrs /\ \E j \in 1..Len(attrs[keys[i]]) : attrs[keys[i]][j] \notin SpaceChars}

FirstPresent(attrs, keys, default) ==
    IF Present(attrs, keys) = {} THEN default
    ELSE attrs[keys[CHOOSE i \in Present(attrs, keys) : \A j \in Present(attrs, keys) : i <= j]]

(* C25: in the final variant pick returns the value of the first candidate *)
(* key present with a non-blank value and otherwise the default of the     *)
(* caller, and with an empty attribute table the eight free-form fields    *)
(* of the record are all the sentinel or all their static default, never   *)
(* a mix.                                                                  *)
C25_OnePolicy ==
    /\ pc = "picked" => res = FirstPresent(arg.attrs, arg.keys, arg.default)
    /\ (pc = "fields" /\ DOMAIN arg.attrs = {}) =>
          \/ \A f \in FreeFormFields : res[f] = SENTINEL
          \/ \A f \in FreeFormFields : res[f] = ParserDefaults[f]

\* what the calls of parse_listing give: the static default for the two
\* fields called with default=, the sentinel for the six whose default is
\* passed as a second key
C25_PickAsCalled ==
    /\ pc = "picked" => res = FirstPresent(arg.attrs, arg.keys, arg.default)
    /\ (pc = "fields" /\ DOMAIN arg.attrs = {}) =>
          \A f \in FreeFormFields :
              res[f] = IF f \in {"room_count", "floor"} THEN ParserDefaults[f] ELSE SENTINEL
    /\ pc = "fields" =>
          /\ res.room_count = FirstPresent(arg.attrs, <<"Oda Sayisi">>, <<"2","+","1">>)
          /\ res.heating = FirstPresent(arg.attrs, <<"Isitma", "Kombi (Dogalgaz)">>, SENTINEL)

\* a blank first key is passed over for the second
C25_WitnessSecondKey ==
    /\ pc = "picked"
    /\ arg.keys = <<"Isitma", "Oda Sayisi">>
    /\ "Isitma" \in DOMAIN arg.attrs /\ arg.attrs["Isitma"] = <<" ">>
    /\ res = <<"3","+","1">>

=============================================================================
